---- MODULE Spec2Model ----
(***************************************************************************)
(* A model of the evsim charge network: the ChargeNetwork graph ADT        *)
(* (src/src/classes/charge_network.py), its Leg edges                      *)
(* (src/src/classes/leg.py) and ChargeStation vertices                     *)
(* (src/src/classes/charge_station.py), and the A* search                  *)
(* get_shortest_path.                                                      *)
(*                                                                         *)
(* Units follow the source: ev_range, min_leg_length and max_leg_length    *)
(* are kilometres, driving_distance is metres.  great_circle_distance      *)
(* returns a float number of kilometres in the source; the network model   *)
(* carries it as a whole number of metres (the source value times 1000,    *)
(* rounded up), so every comparison of the source is made here with both   *)
(* sides times 1000.  The cluster and simulation models compute in floats. *)
(***************************************************************************)
EXTENDS Integers, Sequences, FiniteSets, TLC

VARIABLES graph,        \* ChargeNetwork._graph: station -> set of legs
          shared,       \* the sets of stations whose entries of _graph are one set object
          ev_range,     \* ChargeNetwork._ev_range (km)
          possible,     \* the set last returned by get_possible_legs
          nops,         \* number of mutating calls made on the network
          call,         \* the last call made on the network, with its arguments
          pc,           \* position of get_shortest_path
          query,        \* its arguments cs1, cs2, min_leg_length, max_leg_length
          fringe,       \* the PriorityQueue, a set of <<f_score, lifo_counter, cs>>
          lifo_counter, \* the decreasing counter
          pushed,       \* the tuples given to fringe.put, in the order of the calls
          g_score,      \* station -> metres, Inf when not scored yet
          prev_legs,    \* station -> the leg that led to it
          path,         \* the list of legs get_shortest_path returned
          raised,       \* the exception the last call raised, or "none"
          cluster,      \* a TreeCluster under construction (cluster.py)
          sim,          \* a run of simulate_path_charging: its arguments, info, index
          json,         \* a network and the file export_to_json writes of it
          pair,         \* two Leg objects and what comparing and hashing them gives
          web,          \* the web layer: the outcome of a path query and the response
          build,        \* mutate_legs: the legs, the oracle calls made, the legs dropped
          places        \* the Places API wrappers: the places_api table, the clock, the requests

vars == <<graph, shared, ev_range, possible, nops, call, pc, query, fringe, lifo_counter,
          pushed, g_score, prev_legs, path, raised, cluster, sim, json, pair, web, build,
          places>>

netVars == <<graph, shared, ev_range, possible, nops, call>>

searchVars == <<pc, query, fringe, lifo_counter, pushed, g_score, prev_legs, path>>

\* the state of the other components of the program
auxVars == <<cluster, sim, json, pair, web, build, places>>

\* a component that has not been started
Idle(v) == v = [pc |-> "idle"]

\* no other component has been started
AuxIdle ==
  /\ Idle(cluster)
  /\ Idle(sim)
  /\ Idle(json)
  /\ Idle(pair)
  /\ Idle(web)
  /\ Idle(build)
  /\ Idle(places)

---------------------------------------------------------------------------
(* Bounds and input sets *)

MaxOps == 4

\* most legs handed to one safe_load_legs call
MaxLoad == 2

\* ChargeStation objects.  A station is its identity (eq=False); D is a
\* second object with the field values of A, like the placeholder station
\* at (0, 0) of main.py.
Stations == {"A", "B", "C", "D"}

\* ev_range values (km) a network is constructed with
EvRanges == {0, 100, 300}

\* what the routing oracle reports for a leg: <<metres, seconds>>
OracleValues == {<<100000, 3600>>, <<120000, 4320>>, <<250000, 9000>>}

\* <<min_leg_length, max_leg_length>> in km
Windows == {<<0, 150>>, <<0, 250>>, <<120, 250>>}

---------------------------------------------------------------------------
(* ChargeStation, Leg, great_circle_distance *)

None == -1
Inf == -2

\* ChargeStation.coord: <<lat, lng>> in whole degrees, all on the equator
coord(cs) ==
  CASE cs = "A" -> <<0, 0>>
    [] cs = "B" -> <<0, 1>>
    [] cs = "C" -> <<0, 2>>
    [] cs = "D" -> <<0, 0>>

Abs(x) == IF x < 0 THEN 0 - x ELSE x

\* great_circle_distance, in metres, rounded up to the metre.  For two
\* points of latitude 0 the haversine terms of the latitudes vanish and the
\* central angle is lon_diff, so the source returns 111.19492664455873 km
\* per degree for the stations of the model.  The network compares it with
\* a whole number of metres by <= or >=, where the rounding changes
\* nothing, and by < with ev_range * 1000, which no station distance
\* equals, and adds it to whole metres in f_score, whose order the
\* rounding keeps; cluster.py compares it by < with any float, and
\* TreeCluster below keeps the float itself.
great_circle_distance(p1, p2) == 111195 * Abs(p1[2] - p2[2])

\* Leg.__init__: the endpoints are kept as a set
Leg(cs1, cs2, driving_distance, driving_time) ==
  [endpoints |-> {cs1, cs2},
   driving_distance |-> driving_distance,
   driving_time |-> driving_time]

\* variant: stations compared by their coordinates
LegEq_by_coord(l1, l2) ==
  {coord(cs) : cs \in l1.endpoints} = {coord(cs) : cs \in l2.endpoints}

\* Leg.__eq__: equality of the endpoint sets only
LegEq(l1, l2) == l1.endpoints = l2.endpoints

\* `leg in s` for a Python set of legs (hash by coordinates, then __eq__)
LegIn(leg, s) == \E l \in s : LegEq(l, leg)

\* s.add(leg) for a Python set of legs: an equal leg already there stays
SetAdd(s, leg) == IF LegIn(leg, s) THEN s ELSE s \cup {leg}

\* Leg.get_other_endpoint: (endpoints - {cs}).pop()
get_other_endpoint(leg, cs) == CHOOSE e \in leg.endpoints \ {cs} : TRUE

\* a Python set of legs never holds two equal legs
IsPySet(s) == \A l1, l2 \in s : LegEq(l1, l2) => l1 = l2

Pairs(S) == {p \in SUBSET S : Cardinality(p) = 2}

\* every resolved leg between two stations of S
ResolvedLegs(S) ==
  {[endpoints |-> p, driving_distance |-> v[1], driving_time |-> v[2]] :
     p \in Pairs(S), v \in OracleValues}

---------------------------------------------------------------------------
(* ChargeNetwork *)

EmptyGraph == [cs \in {} |-> {}]

charge_stations(g) == DOMAIN g

\* the stations whose entry of _graph is the set object that is cs's entry
same_object(objects, cs) == {cs} \cup UNION {b \in objects : cs \in b}

\* self._graph[cs] = legs for a set that is not empty, else
\* self._graph[cs] = set(): what the entries hold
add_charge_station(g, cs, legs) ==
  [x \in DOMAIN g \cup {cs} |-> IF x = cs THEN legs ELSE g[x]]

\* the same assignment: which entries are one object.  The set given is a
\* new object (held = ""), or the object that is the entry of the station
\* held, as charge_station_legs returns it; a set that is not empty is
\* stored as the object it is, and an empty one is replaced by a new set()
add_charge_station_objects(objects, cs, legs, held) ==
  LET others == {b \ {cs} : b \in objects}
      joined == IF held # "" /\ legs # {}
                THEN {b \in others : held \notin b} \cup {same_object(others, held) \cup {cs}}
                ELSE others
  IN IF held = cs /\ legs # {} THEN objects
     ELSE {b \in joined : Cardinality(b) >= 2}

\* variant: a pair at exactly ev_range is a candidate as well
get_possible_legs_inclusive(g, ev) ==
  {Leg(p[1], p[2], None, None) :
     p \in {q \in charge_stations(g) \X charge_stations(g) :
              /\ q[1] # q[2]
              /\ great_circle_distance(coord(q[1]), coord(q[2])) <= ev * 1000}}

get_possible_legs(g, ev) ==
  {Leg(p[1], p[2], None, None) :
     p \in {q \in charge_stations(g) \X charge_stations(g) :
              /\ q[1] # q[2]
              /\ great_circle_distance(coord(q[1]), coord(q[2])) < ev * 1000}}

\* variant: a leg of exactly ev_range is dropped
RECURSIVE safe_load_legs_strict(_, _, _, _)
safe_load_legs_strict(g, objects, ev, legs) ==
  IF legs = {} THEN g
  ELSE LET leg == CHOOSE l \in legs : TRUE
           g1 == IF leg.driving_distance < ev * 1000
                 THEN [cs \in DOMAIN g |->
                         IF \E e \in leg.endpoints : cs \in same_object(objects, e)
                         THEN SetAdd(g[cs], leg) ELSE g[cs]]
                 ELSE g
       IN safe_load_legs_strict(g1, objects, ev, legs \ {leg})

\* safe_load_legs: self._graph[cs].add(leg) for both endpoints of a leg
\* within range; the set object of an endpoint gains the leg, and with it
\* every entry that is that object
RECURSIVE safe_load_legs(_, _, _, _)
safe_load_legs(g, objects, ev, legs) ==
  IF legs = {} THEN g
  ELSE LET leg == CHOOSE l \in legs : TRUE
           g1 == IF leg.driving_distance <= ev * 1000
                 THEN [cs \in DOMAIN g |->
                         IF \E e \in leg.endpoints : cs \in same_object(objects, e)
                         THEN SetAdd(g[cs], leg) ELSE g[cs]]
                 ELSE g
       IN safe_load_legs(g1, objects, ev, legs \ {leg})

---------------------------------------------------------------------------
(* The network under construction: any sequence of calls *)

NoQuery == [cs1 |-> "", cs2 |-> "", min_leg_length |-> 0, max_leg_length |-> 0]

SearchIdle ==
  /\ pc = "idle"
  /\ query = NoQuery
  /\ fringe = {}
  /\ lifo_counter = 0
  /\ pushed = <<>>
  /\ g_score = EmptyGraph
  /\ prev_legs = EmptyGraph
  /\ path = <<>>

NoCall == [name |-> "", cs |-> "", legs |-> {}]

\* ChargeNetwork.__init__
Init ==
  /\ graph = EmptyGraph
  /\ shared = {}
  /\ ev_range \in EvRanges
  /\ possible = {}
  /\ nops = 0
  /\ call = NoCall
  /\ raised = "none"
  /\ SearchIdle
  /\ AuxIdle

\* the legs argument of add_charge_station: absent, or the legs of a path
\* (main.py gives a placeholder station the legs of the path found); here
\* the path is the single leg A-B of 250 km
AddLegArgs == {{}, {Leg("A", "B", 250000, 9000)}}

\* the argument of safe_load_legs: resolved legs between vertices
\* (its documented precondition)
RECURSIVE LegSets(_, _)
LegSets(n, legs) ==
  IF n = 0 THEN {{}}
  ELSE LET smaller == LegSets(n - 1, legs)
       IN smaller \cup {s \cup {l} : s \in smaller, l \in legs}

LoadArgs(g) ==
  {s \in LegSets(MaxLoad, ResolvedLegs(charge_stations(g))) : IsPySet(s)}

\* add_charge_station(cs, legs), legs being a new set (held = "") or the
\* set charge_station_legs(held) returned
AddChargeStation(cs, legs, held) ==
  /\ pc = "idle"
  /\ nops < MaxOps
  /\ graph' = add_charge_station(graph, cs, legs)
  /\ shared' = add_charge_station_objects(shared, cs, legs, held)
  /\ nops' = nops + 1
  /\ call' = [name |-> "add_charge_station", cs |-> cs, legs |-> legs]
  /\ raised' = "none"
  /\ UNCHANGED <<ev_range, possible>>
  /\ UNCHANGED <<searchVars, auxVars>>

SafeLoadLegs(legs) ==
  /\ pc = "idle"
  /\ nops < MaxOps
  /\ graph' = safe_load_legs(graph, shared, ev_range, legs)
  /\ UNCHANGED shared
  /\ nops' = nops + 1
  /\ call' = [name |-> "safe_load_legs", cs |-> "", legs |-> legs]
  /\ raised' = "none"
  /\ UNCHANGED <<ev_range, possible>>
  /\ UNCHANGED <<searchVars, auxVars>>

GetPossibleLegs ==
  /\ pc = "idle"
  /\ possible' = get_possible_legs(graph, ev_range)
  /\ call' = [name |-> "get_possible_legs", cs |-> "", legs |-> {}]
  /\ raised' = "none"
  /\ UNCHANGED <<graph, shared, ev_range, nops>>
  /\ UNCHANGED <<searchVars, auxVars>>

Next ==
  \/ \E cs \in Stations, held \in DOMAIN graph \cup {""} :
       \E legs \in (IF held = "" THEN AddLegArgs ELSE {graph[held]}) :
         AddChargeStation(cs, legs, held)
  \/ \E legs \in LoadArgs(graph) : SafeLoadLegs(legs)
  \/ GetPossibleLegs

Spec == Init /\ [][Next]_vars

---------------------------------------------------------------------------
(* get_shortest_path *)

\* variant: among equal f_scores the tuple with the greatest counter
IsLeast_oldest_first(e, q) ==
  \A o \in q \ {e} : e[1] < o[1] \/ (e[1] = o[1] /\ e[2] > o[2])

\* the fringe entry PriorityQueue.get() returns: the least tuple, compared
\* by f_score and then by the counter
IsLeast(e, q) ==
  \A o \in q \ {e} : e[1] < o[1] \/ (e[1] = o[1] /\ e[2] < o[2])

\* variant: the legs are collected from the goal backwards
RECURSIVE reconstruct_path_backwards(_, _)
reconstruct_path_backwards(prev, end) ==
  IF end \notin DOMAIN prev THEN <<>>
  ELSE <<prev[end]>>
       \o reconstruct_path_backwards(prev, get_other_endpoint(prev[end], end))

\* ChargeNetwork._reconstruct_path
RECURSIVE reconstruct_path(_, _)
reconstruct_path(prev, end) ==
  IF end \notin DOMAIN prev THEN <<>>
  ELSE Append(reconstruct_path(prev, get_other_endpoint(prev[end], end)), prev[end])

\* the orders in which `for leg in self.charge_station_legs(curr_cs)` can
\* visit a set of legs
Orders(s) ==
  {o \in [1..Cardinality(s) -> s] : \A i, j \in 1..Cardinality(s) : o[i] = o[j] => i = j}

\* variant: the window excludes its bounds (the test of classes.py)
relax_leg_open_window(leg, curr_cs, q, st) ==
  IF ~(/\ q.min_leg_length * 1000 < leg.driving_distance
       /\ leg.driving_distance < q.max_leg_length * 1000)
  THEN st
  ELSE LET neighbour == get_other_endpoint(leg, curr_cs)
       IN IF st.g_score[neighbour] = Inf
          THEN LET g == st.g_score[curr_cs] + leg.driving_distance
                   f_score == g * 1000
                              + great_circle_distance(coord(neighbour), coord(q.cs2))
               IN [g_score |-> [st.g_score EXCEPT ![neighbour] = g],
                   prev_legs |-> [x \in DOMAIN st.prev_legs \cup {neighbour} |->
                                    IF x = neighbour THEN leg ELSE st.prev_legs[x]],
                   fringe |-> st.fringe \cup {<<f_score, st.lifo_counter, neighbour>>},
                   pushed |-> Append(st.pushed, <<f_score, st.lifo_counter, neighbour>>),
                   lifo_counter |-> st.lifo_counter - 1]
          ELSE st

\* one leg of the for loop in get_shortest_path.  st holds g_score,
\* prev_legs, fringe, pushed and lifo_counter.  f_score is kept times 1000:
\* g_score is metres and the heuristic is the great-circle distance in km.
relax_leg(leg, curr_cs, q, st) ==
  IF \/ leg.driving_distance < q.min_leg_length * 1000
     \/ leg.driving_distance > q.max_leg_length * 1000
  THEN st
  ELSE LET neighbour == get_other_endpoint(leg, curr_cs)
       IN IF st.g_score[neighbour] = Inf
          THEN LET g == st.g_score[curr_cs] + leg.driving_distance
                   f_score == g * 1000
                              + great_circle_distance(coord(neighbour), coord(q.cs2))
               IN [g_score |-> [st.g_score EXCEPT ![neighbour] = g],
                   prev_legs |-> [x \in DOMAIN st.prev_legs \cup {neighbour} |->
                                    IF x = neighbour THEN leg ELSE st.prev_legs[x]],
                   fringe |-> st.fringe \cup {<<f_score, st.lifo_counter, neighbour>>},
                   pushed |-> Append(st.pushed, <<f_score, st.lifo_counter, neighbour>>),
                   lifo_counter |-> st.lifo_counter - 1]
          ELSE st

\* the whole for loop, over the legs in the order o
RECURSIVE relax_legs(_, _, _, _)
relax_legs(o, curr_cs, q, st) ==
  IF o = <<>> THEN st
  ELSE relax_legs(Tail(o), curr_cs, q, relax_leg(Head(o), curr_cs, q, st))

\* variant: the call without the test `cs1 is cs2`
GetShortestPath_unchecked(cs1, cs2, w) ==
  /\ pc = "idle"
  /\ cs1 \in charge_stations(graph) /\ cs2 \in charge_stations(graph)
  /\ w[1] <= w[2]
  /\ w[2] <= ev_range
  /\ query' = [cs1 |-> cs1, cs2 |-> cs2, min_leg_length |-> w[1], max_leg_length |-> w[2]]
  /\ fringe' = {<<0, -1, cs1>>}
  /\ pushed' = <<<<0, -1, cs1>>>>
  /\ lifo_counter' = -1
  /\ prev_legs' = EmptyGraph
  /\ g_score' = [cs \in charge_stations(graph) |-> IF cs = cs1 THEN 0 ELSE Inf]
  /\ pc' = "loop"
  /\ UNCHANGED <<path, raised>>
  /\ UNCHANGED <<netVars, auxVars>>

\* the call, up to the while loop
GetShortestPath(cs1, cs2, w) ==
  /\ pc = "idle"
  /\ cs1 \in charge_stations(graph) /\ cs2 \in charge_stations(graph)
  /\ w[1] <= w[2]
  /\ w[2] <= ev_range
  /\ query' = [cs1 |-> cs1, cs2 |-> cs2, min_leg_length |-> w[1], max_leg_length |-> w[2]]
  /\ IF cs1 = cs2
     THEN /\ raised' = "PathNotNeeded"
          /\ pc' = "done"
          /\ UNCHANGED <<fringe, lifo_counter, pushed, g_score, prev_legs, path>>
     ELSE /\ fringe' = {<<0, -1, cs1>>}
          /\ pushed' = <<<<0, -1, cs1>>>>
          /\ lifo_counter' = -1
          /\ prev_legs' = EmptyGraph
          /\ g_score' = [cs \in charge_stations(graph) |-> IF cs = cs1 THEN 0 ELSE Inf]
          /\ pc' = "loop"
          /\ UNCHANGED <<path, raised>>
  /\ UNCHANGED <<netVars, auxVars>>

\* variant: the least entry is read but left in the fringe
LoopStep_without_removal ==
  /\ pc = "loop"
  /\ fringe # {}
  /\ IF \A e \in fringe : ~IsLeast(e, fringe)
     THEN \* two least tuples agree on f_score and counter: the stations are compared
          /\ raised' = "TypeError"
          /\ pc' = "done"
          /\ UNCHANGED <<fringe, lifo_counter, pushed, g_score, prev_legs, path>>
     ELSE LET curr == CHOOSE e \in fringe : IsLeast(e, fringe)
              curr_cs == curr[3]
          IN IF curr_cs = query.cs2
             THEN /\ path' = reconstruct_path(prev_legs, query.cs2)
                  /\ pc' = "done"
                  /\ fringe' = fringe
                  /\ UNCHANGED <<lifo_counter, pushed, g_score, prev_legs, raised>>
             ELSE \E o \in Orders(graph[curr_cs]) :
                    LET st == relax_legs(o, curr_cs, query,
                                         [g_score |-> g_score, prev_legs |-> prev_legs,
                                          fringe |-> fringe,
                                          pushed |-> pushed,
                                          lifo_counter |-> lifo_counter])
                    IN /\ g_score' = st.g_score
                       /\ prev_legs' = st.prev_legs
                       /\ fringe' = st.fringe
                       /\ pushed' = st.pushed
                       /\ lifo_counter' = st.lifo_counter
                       /\ UNCHANGED <<pc, path, raised>>
  /\ UNCHANGED query
  /\ UNCHANGED <<netVars, auxVars>>

\* one turn of the while loop: pop, then return or relax every leg
LoopStep ==
  /\ pc = "loop"
  /\ fringe # {}
  /\ IF \A e \in fringe : ~IsLeast(e, fringe)
     THEN \* two least tuples agree on f_score and counter: the stations are compared
          /\ raised' = "TypeError"
          /\ pc' = "done"
          /\ UNCHANGED <<fringe, lifo_counter, pushed, g_score, prev_legs, path>>
     ELSE LET curr == CHOOSE e \in fringe : IsLeast(e, fringe)
              curr_cs == curr[3]
          IN IF curr_cs = query.cs2
             THEN /\ path' = reconstruct_path(prev_legs, query.cs2)
                  /\ pc' = "done"
                  /\ fringe' = fringe \ {curr}
                  /\ UNCHANGED <<lifo_counter, pushed, g_score, prev_legs, raised>>
             ELSE \E o \in Orders(graph[curr_cs]) :
                    LET st == relax_legs(o, curr_cs, query,
                                         [g_score |-> g_score, prev_legs |-> prev_legs,
                                          fringe |-> fringe \ {curr},
                                          pushed |-> pushed,
                                          lifo_counter |-> lifo_counter])
                    IN /\ g_score' = st.g_score
                       /\ prev_legs' = st.prev_legs
                       /\ fringe' = st.fringe
                       /\ pushed' = st.pushed
                       /\ lifo_counter' = st.lifo_counter
                       /\ UNCHANGED <<pc, path, raised>>
  /\ UNCHANGED query
  /\ UNCHANGED <<netVars, auxVars>>

\* variant: an empty fringe ends the search with an empty path, no error
Exhausted_returns_empty ==
  /\ pc = "loop"
  /\ fringe = {}
  /\ raised' = "none"
  /\ path' = <<>>
  /\ pc' = "done"
  /\ UNCHANGED <<query, fringe, lifo_counter, pushed, g_score, prev_legs>>
  /\ UNCHANGED <<netVars, auxVars>>

\* the while loop ends with an empty fringe
Exhausted ==
  /\ pc = "loop"
  /\ fringe = {}
  /\ raised' = "PathNotFound"
  /\ pc' = "done"
  /\ UNCHANGED <<query, fringe, lifo_counter, pushed, g_score, prev_legs, path>>
  /\ UNCHANGED <<netVars, auxVars>>

---------------------------------------------------------------------------
(* A path query: handle_get_path_request loads the network with from_json *)
(* and searches it                                                         *)

RECURSIVE add_charge_stations(_, _)
add_charge_stations(g, css) ==
  IF css = {} THEN g
  ELSE LET cs == CHOOSE c \in css : TRUE
       IN add_charge_stations(add_charge_station(g, cs, {}), css \ {cs})

\* ChargeNetwork.from_json on the content of an exported file
from_json(data) ==
  safe_load_legs(add_charge_stations(EmptyGraph, data.charge_stations), {},
                 data.ev_range, data.legs)

\* exported files: stations, and at most one leg per pair of them
JsonFiles ==
  UNION {[ev_range : EvRanges, charge_stations : {css},
          legs : {s \in SUBSET ResolvedLegs(css) : IsPySet(s)}] :
         css \in SUBSET Stations}

QueryInit ==
  /\ \E data \in JsonFiles :
       /\ graph = from_json(data)
       /\ ev_range = data.ev_range
  /\ shared = {}
  /\ possible = {}
  /\ nops = 0
  /\ call = NoCall
  /\ raised = "none"
  /\ SearchIdle
  /\ AuxIdle

QueryNext ==
  \/ \E cs1, cs2 \in Stations, w \in Windows : GetShortestPath(cs1, cs2, w)
  \/ LoopStep
  \/ Exhausted

QuerySpec == QueryInit /\ [][QueryNext]_vars

---------------------------------------------------------------------------
(* What the claims about get_shortest_path speak of *)

\* every leg held by some adjacency set
NetworkLegs(g) == UNION {g[cs] : cs \in DOMAIN g}

InWindow(leg, q) ==
  /\ q.min_leg_length * 1000 <= leg.driving_distance
  /\ leg.driving_distance <= q.max_leg_length * 1000

Joined(g, q, x, y) ==
  \E leg \in NetworkLegs(g) : leg.endpoints = {x, y} /\ InWindow(leg, q)

\* the sequences of distinct stations from a to b whose consecutive
\* stations are joined by an in-window leg
Routes(g, q, a, b) ==
  UNION {{r \in [1..n -> DOMAIN g] :
            /\ r[1] = a /\ r[n] = b
            /\ \A i, j \in 1..n : r[i] = r[j] => i = j
            /\ \A i \in 1..(n - 1) : Joined(g, q, r[i], r[i + 1])} :
         n \in 2..Cardinality(DOMAIN g)}

Connected(g, q) == Routes(g, q, q.cs1, q.cs2) # {}

LegBetween(g, x, y) == CHOOSE leg \in NetworkLegs(g) : leg.endpoints = {x, y}

RECURSIVE RouteLength(_, _, _)
RouteLength(g, r, n) ==
  IF n <= 1 THEN 0
  ELSE RouteLength(g, r, n - 1) + LegBetween(g, r[n - 1], r[n]).driving_distance

\* the least total driving distance of an in-window route from cs1 to cs2
MinDistance(g, q) ==
  LET lengths == {RouteLength(g, r, Len(r)) : r \in Routes(g, q, q.cs1, q.cs2)}
  IN CHOOSE m \in lengths : \A o \in lengths : m <= o

RECURSIVE PathLength(_)
PathLength(p) ==
  IF p = <<>> THEN 0 ELSE Head(p).driving_distance + PathLength(Tail(p))

Returned == pc = "done" /\ raised = "none"

\* no road is shorter than the great circle between its endpoints, which
\* makes the great-circle heuristic admissible (and consistent)
RoadsNotShorterThanGreatCircle(g) ==
  \A leg \in NetworkLegs(g) :
    \A x, y \in leg.endpoints :
      great_circle_distance(coord(x), coord(y)) <= leg.driving_distance

\* the stations a list of legs visits when driven from cs on; <<>> when
\* some leg does not start where the one before it ended
RECURSIVE Visits(_, _)
Visits(p, cs) ==
  IF p = <<>> THEN <<cs>>
  ELSE IF cs \notin Head(p).endpoints \/ Cardinality(Head(p).endpoints) # 2 THEN <<>>
  ELSE LET rest == Visits(Tail(p), CHOOSE e \in Head(p).endpoints : e # cs)
       IN IF rest = <<>> THEN <<>> ELSE <<cs>> \o rest

---------------------------------------------------------------------------
(* C1 *)

\* C1: when cs1 and cs2 are distinct and joined by a route of in-window
\* legs, leg distances are positive and the heuristic never exceeds the
\* remaining road distance, get_shortest_path returns a path whose total
\* driving_distance is the least over all such routes.
C1_ReturnsMinimalPath ==
  (/\ pc = "done"
   /\ query.cs1 # query.cs2
   /\ Connected(graph, query)
   /\ RoadsNotShorterThanGreatCircle(graph))
  => (/\ raised = "none"
      /\ PathLength(path) = MinDistance(graph, query))

---------------------------------------------------------------------------
(* C2 *)

\* a station that was popped and expanded: scored, no longer in the fringe
Expanded(cs) ==
  /\ pc \in {"loop", "done"}
  /\ query.cs1 # query.cs2
  /\ g_score[cs] # Inf
  /\ cs # query.cs2
  /\ \A e \in fringe : e[3] # cs

\* the concrete network of the spec: A-B 100 km, B-C 100 km, A-C 250 km
ScenarioGraph ==
  from_json([ev_range |-> 300, charge_stations |-> {"A", "B", "C"},
             legs |-> {Leg("A", "B", 100000, 3600), Leg("B", "C", 100000, 3600),
                       Leg("A", "C", 250000, 9000)}])

\* C2: every leg of a returned path has min_leg_length*1000 <=
\* driving_distance <= max_leg_length*1000; a leg at a bound is eligible:
\* once a station is expanded, the other endpoint of each of its in-window
\* legs, bounds included, has a g_score; and on the concrete network
\* get_shortest_path(A, C, 0, 150) returns [A-B, B-C].
C2_PathLegsInWindow ==
  /\ Returned => \A i \in 1..Len(path) : InWindow(path[i], query)
  /\ \A cs \in DOMAIN g_score :
       Expanded(cs) =>
         \A leg \in graph[cs] :
           InWindow(leg, query) => g_score[get_other_endpoint(leg, cs)] # Inf
  /\ (/\ pc = "done"
      /\ graph = ScenarioGraph
      /\ query = [cs1 |-> "A", cs2 |-> "C", min_leg_length |-> 0, max_leg_length |-> 150])
     => (/\ raised = "none"
         /\ path = <<Leg("A", "B", 100000, 3600), Leg("B", "C", 100000, 3600)>>)

\* a returned path with a leg at each bound, while the direct leg between
\* start and goal is outside the window
C2_Witness ==
  /\ Returned
  /\ \E i \in 1..Len(path) : path[i].driving_distance = query.min_leg_length * 1000
  /\ \E i \in 1..Len(path) : path[i].driving_distance = query.max_leg_length * 1000
  /\ \E leg \in graph[query.cs1] :
       leg.endpoints = {query.cs1, query.cs2} /\ ~InWindow(leg, query)

---------------------------------------------------------------------------
(* C3 *)

\* C3: for distinct cs1 and cs2, get_shortest_path raises PathNotFound
\* exactly when no route of in-window legs joins cs1 to cs2, and returns a
\* path whenever there is one.
C3_PathNotFoundIffNoRoute ==
  (pc = "done" /\ query.cs1 # query.cs2)
  => (/\ raised = "PathNotFound" <=> ~Connected(graph, query)
      /\ Connected(graph, query) => (raised = "none" /\ path # <<>>))

\* PathNotFound although the start has legs and the goal has legs
C3_Witness ==
  /\ pc = "done"
  /\ raised = "PathNotFound"
  /\ graph[query.cs1] # {}
  /\ graph[query.cs2] # {}

---------------------------------------------------------------------------
(* C4 *)

\* C4: get_shortest_path(x, x, ...) raises PathNotNeeded, whatever the
\* graph and the window: it neither returns nor raises PathNotFound; and
\* PathNotNeeded is raised for no two distinct station objects, also when
\* their field values are identical.
C4_PathNotNeeded ==
  /\ (pc = "done" /\ query.cs1 = query.cs2) => raised = "PathNotNeeded"
  /\ raised = "PathNotNeeded" => query.cs1 = query.cs2

\* PathNotNeeded raised for a station that has legs
C4_Witness ==
  /\ pc = "done"
  /\ raised = "PathNotNeeded"
  /\ graph[query.cs1] # {}

---------------------------------------------------------------------------
(* C5 *)

\* C5: a returned path is a non-empty list of legs of the network; driven
\* from cs1 on, each leg starts at the station the one before it reached,
\* the last leg reaches cs2, and no station is visited twice.
C5_PathIsChain ==
  Returned =>
    LET v == Visits(path, query.cs1)
    IN /\ path # <<>>
       /\ \A i \in 1..Len(path) : path[i] \in NetworkLegs(graph)
       /\ Len(v) = Len(path) + 1
       /\ v[1] = query.cs1
       /\ v[Len(v)] = query.cs2
       /\ \A i, j \in 1..Len(v) : v[i] = v[j] => i = j
       /\ \A i \in 1..(Len(path) - 1) :
            path[i].endpoints \cap path[i + 1].endpoints = {v[i + 1]}

\* a returned path of three legs
C5_Witness ==
  /\ Returned
  /\ Len(path) = 3

---------------------------------------------------------------------------
(* C6 *)

\* C6: every leg in the adjacency set of a station cs has cs as an
\* endpoint, has both endpoints among the keys of the adjacency map, and
\* is in the adjacency set of its other endpoint too.
C6_AdjacencyConsistent ==
  \A cs \in DOMAIN graph :
    \A leg \in graph[cs] :
      /\ cs \in leg.endpoints
      /\ leg.endpoints \subseteq DOMAIN graph
      /\ \A e \in leg.endpoints : LegIn(leg, graph[e])

---------------------------------------------------------------------------
(* C7 *)

\* C7: no adjacency set holds a leg whose driving_distance exceeds
\* ev_range*1000 metres.
C7_NoLegBeyondRange ==
  \A cs \in DOMAIN graph :
    \A leg \in graph[cs] : leg.driving_distance <= ev_range * 1000

---------------------------------------------------------------------------
(* C8 *)

---------------------------------------------------------------------------
(* C9 *)

\* C9: add_charge_station(cs) on a station that is already a vertex fails
\* with DuplicateVertex and leaves the graph as it was; on a station that
\* is not a vertex it makes it one with an empty set of legs.
C9_DuplicateVertexRaised ==
  [][(call'.name = "add_charge_station" /\ call'.legs = {} /\ nops' = nops + 1)
     => IF call'.cs \in DOMAIN graph
        THEN raised' = "DuplicateVertex" /\ graph' = graph
        ELSE /\ DOMAIN graph' = DOMAIN graph \cup {call'.cs}
             /\ graph'[call'.cs] = {}
             /\ \A x \in DOMAIN graph : graph'[x] = graph[x]]_vars

---------------------------------------------------------------------------
(* C10 *)

\* C10: the set get_possible_legs returns holds exactly one leg, with no
\* distance and no time, for every pair of distinct stations of the
\* network at a great-circle distance strictly below ev_range, and
\* nothing else.
C10_PossibleLegsExact ==
  call.name = "get_possible_legs"
  => (/\ \A leg \in possible :
           /\ Cardinality(leg.endpoints) = 2
           /\ leg.endpoints \subseteq DOMAIN graph
           /\ leg.driving_distance = None
           /\ leg.driving_time = None
           /\ \A x, y \in leg.endpoints :
                great_circle_distance(coord(x), coord(y)) < ev_range * 1000
      /\ \A x, y \in DOMAIN graph :
           (x # y /\ great_circle_distance(coord(x), coord(y)) < ev_range * 1000)
           => Cardinality({leg \in possible : leg.endpoints = {x, y}}) = 1)

\* A and D share their coordinates and are a candidate pair, B is too far
\* from both
C10_Witness ==
  /\ call.name = "get_possible_legs"
  /\ {"A", "B", "D"} \subseteq DOMAIN graph
  /\ Leg("A", "D", None, None) \in possible
  /\ \A leg \in possible : "B" \notin leg.endpoints

---------------------------------------------------------------------------
(* C11 *)

\* road distances the routing oracle can report for a pair of stations: a
\* straight road (the great-circle distance itself) or one of OracleValues
RoadDistances ==
  {great_circle_distance(coord(x), coord(y)) : x, y \in Stations}
    \cup {v[1] : v \in OracleValues}

\* safe_load_legs keeps the leg: on an edgeless network of the same
\* stations, loading it alone leaves it in some adjacency set
Admitted(g, ev, leg) ==
  LegIn(leg, NetworkLegs(safe_load_legs(add_charge_stations(EmptyGraph, DOMAIN g), {},
                                        ev, {leg})))

\* C11: the candidate set misses no valid edge: for every pair of distinct
\* stations and every road distance that is at least their great-circle
\* distance and that safe_load_legs admits, get_possible_legs returns the
\* leg of that pair.
C11_NoValidLegMissed ==
  call.name = "get_possible_legs"
  => \A p \in Pairs(DOMAIN graph) : \A d \in RoadDistances :
       LET leg == [endpoints |-> p, driving_distance |-> d, driving_time |-> 0]
       IN (/\ \A x, y \in p : d >= great_circle_distance(coord(x), coord(y))
           /\ Admitted(graph, ev_range, leg))
          => LegIn(leg, possible)

---------------------------------------------------------------------------
(* Python floats (IEEE 754 binary64), as cluster.py,                      *)
(* simulate_path_charging and handle_get_path_request compute with them.   *)
(*                                                                         *)
(* A float is a record [neg, mag]: neg is its sign and mag holds its       *)
(* magnitude times 2^80 as ten digits of base 2^10, the least significant  *)
(* first.  Every float met here is 0 or lies between 2^-27 and 2^20 in     *)
(* magnitude, so it is a whole number of units of 2^-80, and so is the     *)
(* exact sum, difference or product by an integer of such floats.  Each    *)
(* operation computes its exact result and rounds it to 53 significant     *)
(* bits, a tie going to the even neighbour, as the hardware does.          *)

\* significant bits of a float
Precision == 53

\* bits of a digit, digits of a magnitude, and those below the unit
LimbBits == 10
NumLimbs == 10
FracLimbs == 8

LimbBase == 2^LimbBits
Limbs == 1..NumLimbs

BigZero == [i \in Limbs |-> 0]

\* 2^j units
BigPow2(j) == [i \in Limbs |-> IF i = j \div LimbBits + 1 THEN 2^(j % LimbBits) ELSE 0]

BigLess(x, y) == \E i \in Limbs : x[i] < y[i] /\ \A j \in Limbs : j > i => x[j] = y[j]

\* what limb i of x + y hands to the next limb
RECURSIVE AddCarry(_, _, _)
AddCarry(x, y, i) ==
  IF i = 0 THEN 0 ELSE (x[i] + y[i] + AddCarry(x, y, i - 1)) \div LimbBase

BigAdd(x, y) == [i \in Limbs |-> (x[i] + y[i] + AddCarry(x, y, i - 1)) % LimbBase]

\* what limb i of x - y takes from the next limb
RECURSIVE SubBorrow(_, _, _)
SubBorrow(x, y, i) ==
  IF i = 0 THEN 0 ELSE IF x[i] - y[i] - SubBorrow(x, y, i - 1) < 0 THEN 1 ELSE 0

\* x - y, for y <= x
BigSub(x, y) ==
  [i \in Limbs |-> (x[i] - y[i] - SubBorrow(x, y, i - 1) + LimbBase) % LimbBase]

\* what limb i of x * c hands to the next limb
RECURSIVE MulCarry(_, _, _)
MulCarry(x, c, i) ==
  IF i = 0 THEN 0 ELSE (x[i] * c + MulCarry(x, c, i - 1)) \div LimbBase

\* x * c, for a natural number c below 2^20
BigMul(x, c) == [i \in Limbs |-> (x[i] * c + MulCarry(x, c, i - 1)) % LimbBase]

\* x \div 2^n
BigShiftRight(x, n) ==
  LET a == n \div LimbBits
      b == n % LimbBits
      limb(i) == IF i \in Limbs THEN x[i] ELSE 0
  IN [i \in Limbs |->
        limb(i + a) \div 2^b + (limb(i + a + 1) % 2^b) * 2^(LimbBits - b)]

\* (n * LimbBase^k) % d
RECURSIVE ShiftedRem(_, _, _)
ShiftedRem(n, d, k) ==
  IF k = 0 THEN n % d ELSE (ShiftedRem(n, d, k - 1) * LimbBase) % d

\* the whole units of n / d, for natural numbers n and d below 2^20
BigQuot(n, d) ==
  [i \in Limbs |->
     IF i > FracLimbs
     THEN ((n \div d) \div LimbBase^(i - FracLimbs - 1)) % LimbBase
     ELSE (ShiftedRem(n, d, FracLimbs - i) * LimbBase) \div d]

\* the number of bits of a digit v > 0
BitLen(v) == CHOOSE b \in 1..LimbBits : 2^(b - 1) <= v /\ v < 2^b

\* the digits x, of an exact value that is more than x by less than a
\* unit when more is set, rounded to Precision significant bits, a tie
\* going to the even neighbour
Round(x, more) ==
  IF x = BigZero THEN x
  ELSE LET top == CHOOSE i \in Limbs : x[i] # 0 /\ \A j \in Limbs : j > i => x[j] = 0
           k == LimbBits * (top - 1) + BitLen(x[top]) - Precision
           a == k \div LimbBits
           b == k % LimbBits
       IN IF k <= 0 THEN x
          ELSE LET low == [i \in Limbs |-> IF i <= a THEN x[i]
                                           ELSE IF i = a + 1 THEN x[i] % 2^b ELSE 0]
                   down == BigSub(x, low)
                   half == BigPow2(k - 1)
                   odd == (x[a + 1] \div 2^b) % 2 = 1
                   up == \/ BigLess(half, low)
                         \/ low = half /\ (more \/ odd)
               IN IF up THEN BigAdd(down, BigPow2(k)) ELSE down

\* float(n) for a natural number n below 2^20
float(n) == [neg |-> FALSE, mag |-> BigQuot(n, 1)]

\* -x
float_neg(x) == [neg |-> ~x.neg, mag |-> x.mag]

\* x + y
float_add(x, y) ==
  IF x.neg = y.neg THEN [neg |-> x.neg, mag |-> Round(BigAdd(x.mag, y.mag), FALSE)]
  ELSE IF x.mag = y.mag THEN [neg |-> FALSE, mag |-> BigZero]
  ELSE IF BigLess(y.mag, x.mag)
  THEN [neg |-> x.neg, mag |-> Round(BigSub(x.mag, y.mag), FALSE)]
  ELSE [neg |-> y.neg, mag |-> Round(BigSub(y.mag, x.mag), FALSE)]

\* x - y
float_sub(x, y) == float_add(x, float_neg(y))

\* x * c for an int c >= 0
float_mul(x, c) == [neg |-> x.neg, mag |-> Round(BigMul(x.mag, c), FALSE)]

\* n / d for ints n >= 0 and d > 0
float_div(n, d) ==
  [neg |-> FALSE, mag |-> Round(BigQuot(n, d), ShiftedRem(n, d, FracLimbs) # 0)]

\* what is left of the digits of x above digit i after dividing by c
RECURSIVE DivRem(_, _, _)
DivRem(x, c, i) ==
  IF i > NumLimbs THEN 0 ELSE (DivRem(x, c, i + 1) * LimbBase + x[i]) % c

\* x \div c, for a natural number c from 1 to 2^20
BigDiv(x, c) == [i \in Limbs |-> (DivRem(x, c, i + 1) * LimbBase + x[i]) \div c]

\* x / c for an int c > 0
float_truediv(x, c) ==
  [neg |-> x.neg, mag |-> Round(BigDiv(x.mag, c), DivRem(x.mag, c, 1) # 0)]

\* x < y
float_lt(x, y) ==
  IF x.neg
  THEN IF y.neg THEN BigLess(y.mag, x.mag) ELSE x.mag # BigZero \/ y.mag # BigZero
  ELSE ~y.neg /\ BigLess(x.mag, y.mag)

\* x <= y
float_le(x, y) == ~float_lt(y, x)

---------------------------------------------------------------------------
(* TreeCluster (cluster.py): the stations of a network grouped into       *)
(* clusters.  A station here is an object with a longitude and a latitude *)
(* attribute, which chargers_to_km reads.                                  *)

\* chargers_to_km of two stations one degree of longitude apart on the
\* equator: the float 111.19492664455873 that longitude_and_latitude_to_km
\* returns for them
DegreeKm == [neg |-> FALSE, mag |-> <<0, 0, 0, 704, 895, 410, 619, 199, 111, 0>>]

\* max cluster diameters: TreeCluster._distance, in km as the source has
\* it: 0, the distance of two stations one degree apart, 111.195, 150 and
\* 300
ClusterDistances == {float(0), DegreeKm, float_div(111195, 1000), float(150), float(300)}

\* the lists of stations a tree is made of: graph.get_charge_stations()
StationLists ==
  {s \in UNION {[1..n -> Stations] : n \in 1..Cardinality(Stations)} :
     \A i, j \in DOMAIN s : s[i] = s[j] => i = j}

\* chargers_to_km, the float of km longitude_and_latitude_to_km returns:
\* for the stations of the model, on the equator and whole degrees apart,
\* 0.0 for one place, DegreeKm for one degree and twice that float for two
chargers_to_km(charger1, charger2) ==
  float_mul(DegreeKm, Abs(coord(charger1)[2] - coord(charger2)[2]))

\* find_furthest_charge_stations: the first pair, in the order of the two
\* nested loops, that reaches the largest distance (chargers[0], chargers[1]
\* when every distance is 0)
find_furthest_charge_stations(chargers) ==
  LET n == Len(chargers)
      ps == {p \in (1..n) \X (1..n) : p[1] < p[2]}
      dist(p) == chargers_to_km(chargers[p[1]], chargers[p[2]])
      best == {p \in ps : \A q \in ps : float_le(dist(q), dist(p))}
      first == CHOOSE p \in best :
                 \A q \in best : p[1] < q[1] \/ (p[1] = q[1] /\ p[2] <= q[2])
  IN <<chargers[first[1]], chargers[first[2]]>>

\* the inner loop of find_lowest_average_distance: total_distance of
\* chargers[i] once the loop has been through the first j chargers
RECURSIVE total_distance(_, _, _)
total_distance(chargers, i, j) ==
  IF j = 0 THEN float(0)
  ELSE IF i = j THEN total_distance(chargers, i, j - 1)
  ELSE float_add(total_distance(chargers, i, j - 1), chargers_to_km(chargers[i], chargers[j]))

\* avg_distance of chargers[i], for two chargers or more
avg_distance(chargers, i) ==
  float_truediv(total_distance(chargers, i, Len(chargers)), Len(chargers) - 1)

\* variant: the last index with the least average is kept
find_lowest_average_distance_last(chargers) ==
  IF chargers = <<>> THEN "IndexError"
  ELSE IF Len(chargers) = 1 THEN "ZeroDivisionError"
  ELSE
  LET min_index == CHOOSE i \in 1..Len(chargers) :
                     \A j \in 1..Len(chargers) :
                        \/ float_lt(avg_distance(chargers, i), avg_distance(chargers, j))
                        \/ (avg_distance(chargers, i) = avg_distance(chargers, j)
                              /\ i >= j)
  IN chargers[min_index]

\* find_lowest_average_distance: `avg_distance < min_avg_distance` keeps
\* the first index with the least average; the division raises
\* ZeroDivisionError on a list of one station, and chargers[0] raises
\* IndexError on an empty list
find_lowest_average_distance(chargers) ==
  IF chargers = <<>> THEN "IndexError"
  ELSE IF Len(chargers) = 1 THEN "ZeroDivisionError"
  ELSE
  LET min_index == CHOOSE i \in 1..Len(chargers) :
                     \A j \in 1..Len(chargers) :
                        \/ float_lt(avg_distance(chargers, i), avg_distance(chargers, j))
                        \/ (avg_distance(chargers, i) = avg_distance(chargers, j)
                              /\ i <= j)
  IN chargers[min_index]

\* TreeCluster.__init__ on a list of at least one station: not complete;
\* _subcluster is one single-station tree per station when there are
\* several stations (split is FALSE), and empty for one station
TreeCluster(stations) ==
  [stations |-> stations,
   centroid |-> IF Len(stations) = 1 THEN stations[1]
                ELSE find_lowest_average_distance(stations),
   complete |-> FALSE,
   split |-> FALSE]

\* [tree._centroid for tree in self._subcluster] of a node that was not split
subcluster_centroids(node) ==
  IF Len(node.stations) = 1 THEN <<>> ELSE node.stations

\* variant: only neighbours in the list are compared
all_within_distance_adjacent(centroids, distance) ==
  \A i \in 1..Len(centroids) - 1 :
     float_lt(chargers_to_km(centroids[i], centroids[i + 1]), distance)

\* all(chargers_to_km(c1, c2) < self._distance for c1 ... for c2 ...)
all_within_distance(centroids, distance) ==
  \A i, j \in 1..Len(centroids) :
     float_lt(chargers_to_km(centroids[i], centroids[j]), distance)

\* one call of create_subclusters, on the node the recursion reaches next:
\* the node becomes complete, or its stations are split between the two
\* furthest of them and create_subclusters is called on both halves
CreateSubclusters ==
  /\ cluster.pc = "create"
  /\ LET p == Head(cluster.todo)
         node == cluster.tree[p]
         centroids == subcluster_centroids(node)
     IN IF Len(centroids) < 2 \/ all_within_distance(centroids, cluster.distance)
        THEN cluster' = [cluster EXCEPT
                           !.tree = [cluster.tree EXCEPT ![p].complete = TRUE],
                           !.todo = Tail(cluster.todo),
                           !.pc = IF Tail(cluster.todo) = <<>> THEN "created" ELSE "create"]
        ELSE LET reference_stations == find_furthest_charge_stations(centroids)
                 nearer(c) == float_lt(chargers_to_km(c, reference_stations[1]),
                                       chargers_to_km(c, reference_stations[2]))
                 further(c) == ~nearer(c)
                 new_cluster1 == SelectSeq(centroids, nearer)
                 new_cluster2 == SelectSeq(centroids, further)
             IN IF new_cluster1 = <<>> \/ new_cluster2 = <<>>
                THEN \* TreeCluster(distance, []) reads chargers[0] of an empty list
                     cluster' = [cluster EXCEPT !.raised = "IndexError", !.pc = "done"]
                ELSE cluster' = [cluster EXCEPT
                       !.tree = [q \in DOMAIN cluster.tree \cup {p \o <<1>>, p \o <<2>>} |->
                                   IF q = p THEN [node EXCEPT !.split = TRUE]
                                   ELSE IF q = p \o <<1>> THEN TreeCluster(new_cluster1)
                                   ELSE IF q = p \o <<2>> THEN TreeCluster(new_cluster2)
                                   ELSE cluster.tree[q]],
                       !.todo = <<p \o <<1>>, p \o <<2>>>> \o Tail(cluster.todo)]
  /\ UNCHANGED <<netVars, searchVars, raised, sim, json, pair, web, build, places>>

\* TreeCluster.get_list_of_clusters of the node at p
RECURSIVE get_list_of_clusters(_, _)
get_list_of_clusters(tree, p) ==
  IF tree[p].complete
  THEN << <<tree[p].centroid>> \o subcluster_centroids(tree[p]) >>
  ELSE get_list_of_clusters(tree, p \o <<1>>) \o get_list_of_clusters(tree, p \o <<2>>)

GetListOfClusters ==
  /\ cluster.pc = "created"
  /\ cluster' = [cluster EXCEPT !.clusters = get_list_of_clusters(cluster.tree, <<>>),
                                !.pc = "listed"]
  /\ UNCHANGED <<netVars, searchVars, raised, sim, json, pair, web, build, places>>

\* TreeCluster.get_cluster_free_list of the node at p
RECURSIVE get_cluster_free_list(_, _)
get_cluster_free_list(tree, p) ==
  IF tree[p].complete
  THEN <<tree[p].centroid>>
  ELSE get_cluster_free_list(tree, p \o <<1>>) \o get_cluster_free_list(tree, p \o <<2>>)

\* cluster_tree.get_cluster_free_list() on the tree create_subclusters
\* has built, as clusterGraph calls it, with or without a call of
\* get_list_of_clusters before it; neither call changes the tree
GetClusterFreeList ==
  /\ cluster.pc \in {"created", "listed"}
  /\ cluster' = [cluster EXCEPT !.centroids = get_cluster_free_list(cluster.tree, <<>>),
                                !.pc = "freed"]
  /\ UNCHANGED <<netVars, searchVars, raised, sim, json, pair, web, build, places>>

\* no network is being built or searched
NetIdle ==
  /\ graph = EmptyGraph
  /\ shared = {}
  /\ ev_range = 0
  /\ possible = {}
  /\ nops = 0
  /\ call = NoCall
  /\ raised = "none"
  /\ SearchIdle

\* TreeCluster(distance, stations)
ClusterInit ==
  /\ \E distance \in ClusterDistances, stations \in StationLists :
       cluster = [pc |-> "create", distance |-> distance,
                  tree |-> [p \in {<<>>} |-> TreeCluster(stations)],
                  todo |-> << <<>> >>, clusters |-> <<>>, centroids |-> <<>>,
                  raised |-> "none"]
  /\ Idle(sim) /\ Idle(json) /\ Idle(pair) /\ Idle(web) /\ Idle(build) /\ Idle(places)
  /\ NetIdle

ClusterNext ==
  \/ CreateSubclusters
  \/ GetListOfClusters
  \/ GetClusterFreeList

ClusterSpec == ClusterInit /\ [][ClusterNext]_vars

---------------------------------------------------------------------------
(* C12, C13, C14 *)

\* the list of stations the tree was made of
ClusterInput == cluster.tree[<<>>].stations

\* the places <<k, i>> of the returned list of clusters that hold station s
Occurrences(s) ==
  {ki \in (1..Len(cluster.clusters)) \X (1..Cardinality(Stations) + 1) :
     /\ ki[2] <= Len(cluster.clusters[ki[1]])
     /\ cluster.clusters[ki[1]][ki[2]] = s}

\* largest distance between two stations of a list
Diameter(stations) ==
  CHOOSE d \in {chargers_to_km(stations[i], stations[j]) : i, j \in 1..Len(stations)} :
    \A i, j \in 1..Len(stations) : float_le(chargers_to_km(stations[i], stations[j]), d)

\* C12: the clusters get_list_of_clusters returns partition the input:
\* every station of the input is in exactly one cluster, exactly once, and
\* no cluster holds a station that is not of the input.
C12_LeavesPartitionInput ==
  cluster.pc = "listed"
  => /\ \A i \in 1..Len(ClusterInput) :
          Cardinality(Occurrences(ClusterInput[i])) = 1
     /\ \A s \in Stations :
          Occurrences(s) # {} => \E i \in 1..Len(ClusterInput) : ClusterInput[i] = s

\* C13: in every leaf of the tree, and in every cluster of the returned
\* list, no two stations are further apart than the max cluster diameter.
C13_LeafDiameterBounded ==
  cluster.pc # "idle"
  => /\ \A p \in DOMAIN cluster.tree :
          cluster.tree[p].complete
          => float_le(Diameter(cluster.tree[p].stations), cluster.distance)
     /\ \A k \in 1..Len(cluster.clusters) :
          float_le(Diameter(cluster.clusters[k]), cluster.distance)

\* A, B, C one degree apart at 150 km: A alone, B and C together
C13_Witness ==
  /\ cluster.pc = "listed"
  /\ cluster.distance = float(150)
  /\ ClusterInput = <<"A", "B", "C">>
  /\ cluster.clusters = << <<"A">>, <<"B", "B", "C">> >>

\* C14: once create_subclusters has returned, a node whose stations are
\* within the max cluster diameter of each other (a diameter equal to it
\* and a single station included) is a leaf holding them all and was not
\* split, and a node that was split has a diameter strictly greater.
C14_LeafIffWithinDiameter ==
  cluster.pc \in {"created", "listed", "freed"}
  => \A p \in DOMAIN cluster.tree :
       LET node == cluster.tree[p]
       IN /\ float_le(Diameter(node.stations), cluster.distance)
             => /\ node.complete
                /\ ~node.split
                /\ \A i \in 1..Len(node.stations) :
                     \E leaf \in {get_list_of_clusters(cluster.tree, p)[1]} :
                        \E j \in 1..Len(leaf) : leaf[j] = node.stations[i]
          /\ node.split => float_lt(cluster.distance, Diameter(node.stations))

---------------------------------------------------------------------------
(* simulate_path_charging (simulate_path.py)                               *)
(*                                                                         *)
(* Battery levels are floats: 0.25 is a quarter of the battery, and more   *)
(* than 1 is reached when a leg needs it.  index() gives the fields of the *)
(* form divided by 100 as min_battery, max_battery and start_battery, and  *)
(* ev_range as the int of the form (app.py).                               *)

\* most legs of a simulated path
MaxLegs == 3

\* ev_range arguments, km
SimRanges == {100, 400}

\* driving_distance of a leg as get_path_info reports it, metres; it may
\* exceed what the network held, and the range
SimDistances == {20000, 50000, 300000}

\* the fields min-battery, start-battery and max-battery of the form
MinPercents == {0, 10, 25}
StartPercents == {25, 100}
MaxPercents == {30, 100}

\* input_data.min_battery / 100, and the like
MinBatteries == {float_div(p, 100) : p \in MinPercents}
StartBatteries == {float_div(p, 100) : p \in StartPercents}
MaxBatteries == {float_div(p, 100) : p \in MaxPercents}

\* callables given as the charge_curve argument of simulate_path_charging,
\* the seconds to charge from 0 to x:
\*   "linear"   lambda x: x * 3600
\*   "slowing"  lambda x: x * 3600 if x < 1 / 2 else x * 7200 - 1800
\*   "dipping"  lambda x: (1 - x) * 3600
\* The first two never decrease and the third does.  (get_path.py passes
\* generic_charge_curve, a quintic that never decreases; the simulation uses
\* its argument only through the difference of two of its values.)
Curves == {"linear", "slowing", "dipping"}

\* charge_curve(x), for the callable of that name
charge_curve(name, x) ==
  CASE name = "linear" -> float_mul(x, 3600)
    [] name = "slowing" -> IF float_lt(x, float_div(1, 2))
                           THEN float_mul(x, 3600)
                           ELSE float_sub(float_mul(x, 7200), float(1800))
    [] name = "dipping" -> float_mul(float_sub(float(1), x), 3600)

\* variant: ev_range is left in km
battery_used_unconverted(driving_distance, ev) == float_div(driving_distance, ev)

\* csi.driving_distance / ev_range, after ev_range *= 1000
battery_used(driving_distance, ev) == float_div(driving_distance, ev * 1000)

\* ChargeStationInfo(driving_distance, ...): nothing simulated yet
ChargeStationInfo(driving_distance) ==
  [driving_distance |-> driving_distance, charge_time |-> None,
   battery_start |-> None, battery_end |-> None]

\* the lists get_path_info returns: one ChargeStationInfo per leg of the path
InfoLists ==
  UNION {[1..n -> {ChargeStationInfo(d) : d \in SimDistances}] : n \in 1..MaxLegs}

\* variant: the battery is charged to min_battery only
charge_needed_without_leg(min_battery, driving_distance, ev) == min_battery

\* charge_needed = min_battery + csi.driving_distance / ev_range
charge_needed(min_battery, driving_distance, ev) ==
  float_add(min_battery, battery_used(driving_distance, ev))

\* variant: the station is reached with the battery the last one was left with
battery_on_arrival_undrained(info, i, start_battery, ev) ==
  IF i = 1 THEN start_battery ELSE info[i - 1].battery_end

\* csi.battery_start of the body of the loop
battery_on_arrival(info, i, start_battery, ev) ==
  IF i = 1 THEN start_battery
  ELSE float_sub(info[i - 1].battery_end, battery_used(info[i - 1].driving_distance, ev))

\* one turn of the loop of simulate_path_charging, and the return at the
\* last one; a charge_time of 0 is kept as the float 0.0, which it equals
SimulateLeg ==
  /\ sim.pc = "loop"
  /\ LET i == sim.i
         csi == sim.info[i]
         battery_start == battery_on_arrival(sim.info, i, sim.start_battery, sim.ev_range)
         needed == charge_needed(sim.min_battery, csi.driving_distance, sim.ev_range)
         charged == float_lt(battery_start, needed)
         battery_end == IF charged THEN needed ELSE battery_start
         charge_time == IF charged
                        THEN float_sub(charge_curve(sim.charge_curve, needed),
                                       charge_curve(sim.charge_curve, battery_start))
                        ELSE float(0)
         last == i = Len(sim.info)
     IN sim' = [sim EXCEPT
                  !.info[i] = [csi EXCEPT !.battery_start = battery_start,
                                          !.battery_end = battery_end,
                                          !.charge_time = charge_time],
                  !.i = IF last THEN i ELSE i + 1,
                  !.returned = IF last
                               THEN float_sub(battery_end,
                                              battery_used(csi.driving_distance,
                                                           sim.ev_range))
                               ELSE None,
                  !.pc = IF last THEN "done" ELSE "loop"]
  /\ UNCHANGED <<netVars, searchVars, raised, cluster, json, pair, web, build, places>>

\* the call simulate_path_charging(ev_range, min_battery, start_battery,
\* charge_curve, info), before the first turn of its loop
SimInit ==
  /\ \E ev \in SimRanges, min_battery \in MinBatteries,
        start_battery \in StartBatteries, curve \in Curves, info \in InfoLists :
       sim = [pc |-> "loop", ev_range |-> ev, min_battery |-> min_battery,
              start_battery |-> start_battery, charge_curve |-> curve,
              info |-> info, i |-> 1, returned |-> None]
  /\ Idle(cluster) /\ Idle(json) /\ Idle(pair) /\ Idle(web) /\ Idle(build) /\ Idle(places)
  /\ NetIdle

SimNext == SimulateLeg

SimSpec == SimInit /\ [][SimNext]_vars

---------------------------------------------------------------------------
(* C15, C16 *)

\* the legs the loop has been through
Simulated == {j \in 1..Len(sim.info) : j < sim.i \/ sim.pc = "done"}

\* distance[j] / ev_range, both in metres
Used(j) == float_div(sim.info[j].driving_distance, sim.ev_range * 1000)

\* C15: for every leg in order, battery_start is start_battery for the
\* first leg and otherwise the battery_end of the leg before minus what
\* that leg used; required is min_battery plus what the leg uses; below
\* required the battery is charged to exactly required in
\* curve(required) - curve(battery_start), otherwise it is left as it is
\* with a charge time of 0; and the value returned is the battery_end of
\* the last leg minus what that leg uses.
C15_SimulationValues ==
  sim.pc # "idle"
  => /\ \A j \in Simulated :
          LET start == IF j = 1 THEN sim.start_battery
                       ELSE float_sub(sim.info[j - 1].battery_end, Used(j - 1))
              required == float_add(sim.min_battery, Used(j))
          IN /\ sim.info[j].battery_start = start
             /\ IF float_lt(start, required)
                THEN /\ sim.info[j].battery_end = required
                     /\ sim.info[j].charge_time =
                          float_sub(charge_curve(sim.charge_curve, required),
                                    charge_curve(sim.charge_curve, start))
                ELSE /\ sim.info[j].battery_end = start
                     /\ sim.info[j].charge_time = float(0)
     /\ sim.pc = "done"
        => sim.returned = float_sub(sim.info[Len(sim.info)].battery_end, Used(Len(sim.info)))

\* 300 km on a full battery without charging, 300 km after charging from
\* 0.25 to 0.85 in 2160.0 s, and 50 km after charging from
\* 0.09999999999999998 to 0.225 in 450.00000000000006 s; the car arrives
\* with 0.1
C15_Witness ==
  /\ sim.pc = "done"
  /\ sim.ev_range = 400 /\ sim.charge_curve = "linear"
  /\ sim.min_battery = float_div(10, 100) /\ sim.start_battery = float_div(100, 100)
  /\ sim.info =
       <<[driving_distance |-> 300000,
         charge_time |-> [neg |-> FALSE, mag |-> <<0, 0, 0, 0, 0, 0, 0, 0, 0, 0>>],
         battery_start |-> [neg |-> FALSE, mag |-> <<0, 0, 0, 0, 0, 0, 0, 0, 1, 0>>],
         battery_end |-> [neg |-> FALSE, mag |-> <<0, 0, 0, 0, 0, 0, 0, 0, 1, 0>>]],
         [driving_distance |-> 300000,
         charge_time |-> [neg |-> FALSE, mag |-> <<0, 0, 0, 0, 0, 0, 0, 0, 112, 2>>],
         battery_start |-> [neg |-> FALSE, mag |-> <<0, 0, 0, 0, 0, 0, 0, 256, 0, 0>>],
         battery_end |-> [neg |-> FALSE, mag |-> <<0, 0, 384, 614, 409, 614, 409, 870, 0, 0>>]],
         [driving_distance |-> 50000,
         charge_time |-> [neg |-> FALSE, mag |-> <<0, 0, 0, 64, 0, 0, 0, 0, 450, 0>>],
         battery_start |-> [neg |-> FALSE, mag |-> <<0, 0, 384, 614, 409, 614, 409, 102, 0, 0>>],
         battery_end |-> [neg |-> FALSE, mag |-> <<0, 0, 416, 614, 409, 614, 409, 230, 0, 0>>]]>>
  /\ sim.returned = [neg |-> FALSE, mag |-> <<0, 0, 416, 614, 409, 614, 409, 102, 0, 0>>]

\* levels at which a charge curve is sampled: 0, 0.25, ... 3.25
Samples == 0..12

\* the curve does not decrease from one sample to the next
NonDecreasing(curve) ==
  \A k \in Samples :
     float_le(charge_curve(curve, float_div(k, 4)), charge_curve(curve, float_div(k + 1, 4)))

\* the callables that never decrease
NonDecreasingCurves == {curve \in Curves : NonDecreasing(curve)}

\* the battery on arrival after leg j, as the next turn of the loop or the
\* return statement computes it
Arrival(j) == float_sub(sim.info[j].battery_end, Used(j))

\* C16 as it is claimed: every simulated leg leaves with at least
\* min_battery plus what the leg uses, so the battery is not below
\* min_battery on arrival at the next station nor at the destination; and
\* with a charge curve that never decreases no charge time is negative.
C16_NeverBelowMinBattery ==
  sim.pc # "idle"
  => /\ \A j \in Simulated :
          LET csi == sim.info[j]
          IN /\ float_le(float_add(sim.min_battery, Used(j)), csi.battery_end)
             /\ float_le(sim.min_battery, Arrival(j))
             /\ j > 1 => float_le(sim.min_battery, csi.battery_start)
             /\ sim.charge_curve \in NonDecreasingCurves
                => float_le(float(0), csi.charge_time)
     /\ sim.pc = "done" => float_le(sim.min_battery, sim.returned)

\* x is not below y by more than the real number by which rounding to
\* Precision bits can move a value of the size of z: y - x <= z * 2^-52,
\* in exact arithmetic, for floats y >= 0 and z >= 0
NotBelowBeyondRounding(x, y, z) ==
  LET slack == BigShiftRight(z.mag, Precision - 1)
  IN IF x.neg THEN ~BigLess(slack, BigAdd(y.mag, x.mag))
     ELSE ~BigLess(BigAdd(x.mag, slack), y.mag)

\* C16, amended: every simulated leg leaves with at least the float
\* min_battery + distance / ev_range; the battery on arrival at the next
\* station and the value returned for the destination are not below
\* min_battery by more than battery_end * 2^-52, the rounding of the sum
\* and of the difference; and with a charge curve that never decreases no
\* charge time is negative.
C16_NotBelowMinBatteryBeyondRounding ==
  sim.pc # "idle"
  => /\ \A j \in Simulated :
          LET csi == sim.info[j]
          IN /\ float_le(float_add(sim.min_battery, Used(j)), csi.battery_end)
             /\ NotBelowBeyondRounding(Arrival(j), sim.min_battery, csi.battery_end)
             /\ j > 1 => NotBelowBeyondRounding(csi.battery_start, sim.min_battery,
                                                sim.info[j - 1].battery_end)
             /\ sim.charge_curve \in NonDecreasingCurves
                => float_le(float(0), csi.charge_time)
     /\ sim.pc = "done"
        => NotBelowBeyondRounding(sim.returned, sim.min_battery,
                                  sim.info[Len(sim.info)].battery_end)

\* 50 km with a range of 100 km and a min_battery of 0.1: the battery is
\* charged to 0.6 and the car arrives with 0.09999999999999998, less than
\* min_battery
C16_Witness ==
  /\ sim.pc = "done"
  /\ sim.ev_range = 100 /\ sim.charge_curve = "linear"
  /\ sim.min_battery = float_div(10, 100) /\ sim.start_battery = float_div(25, 100)
  /\ sim.info =
       <<[driving_distance |-> 50000,
         charge_time |-> [neg |-> FALSE, mag |-> <<0, 0, 0, 0, 0, 0, 0, 0, 236, 1>>],
         battery_start |-> [neg |-> FALSE, mag |-> <<0, 0, 0, 0, 0, 0, 0, 256, 0, 0>>],
         battery_end |-> [neg |-> FALSE, mag |-> <<0, 0, 384, 614, 409, 614, 409, 614, 0, 0>>]]>>
  /\ sim.returned = [neg |-> FALSE, mag |-> <<0, 0, 384, 614, 409, 614, 409, 102, 0, 0>>]
  /\ float_lt(sim.returned, sim.min_battery)

---------------------------------------------------------------------------
(* export_to_json and from_json (charge_network.py), with the ids of the  *)
(* file and the new objects from_json creates                              *)

\* min_chargers_at_station values a network is constructed with
MinChargers == {1, 4}

\* None as the value of a text field (null in the file), and of a date
Null == "null"
NoDate == <<>>

\* the fields of a station that the file holds besides its coordinates:
\* name stands for name, address, hours and phone, which are copied alike.
\* D has the field values of A.
name(cs) ==
  CASE cs \in {"A", "D"} -> "Main St"
    [] cs = "B" -> Null
    [] cs = "C" -> "Oak Ave"

\* open_date: a datetime.date <<year, month, day>> or None
open_date(cs) ==
  CASE cs \in {"A", "D"} -> <<2020, 1, 15>>
    [] cs = "B" -> NoDate
    [] cs = "C" -> <<2021, 12, 1>>

\* id(cs): what the interpreter gives, distinct for distinct objects
IdAssignments ==
  {[cs \in Stations |-> CASE cs = "A" -> 1 [] cs = "B" -> 2 [] cs = "C" -> 3 [] cs = "D" -> 4],
   [cs \in Stations |-> CASE cs = "A" -> 8 [] cs = "B" -> 7 [] cs = "C" -> 6 [] cs = "D" -> 5]}

\* str(cs.open_date): the text year-month-day
date_str(d) == <<"text", d[1], d[2], d[3]>>

\* datetime.datetime.strptime(text, '%Y-%m-%d').date()
strptime_date(text) == <<text[2], text[3], text[4]>>

\* json.dump writes the keys of a dict as strings; int(id) reads them back
json_key(n) == <<"key", n>>
int_of_key(k) == k[2]

\* set.union(*self._graph.values()): the sets it can return.  Of equal
\* legs the union keeps the one it meets first, in the order of the dict
\* and of its sets: one leg of every class of equal legs
union_of_legs(g) ==
  {s \in SUBSET NetworkLegs(g) : IsPySet(s) /\ \A leg \in NetworkLegs(g) : LegIn(leg, s)}

\* [id(e) for e in leg.endpoints]: the ids in the order the set gives
\* them, which follows the addresses of the objects: every order can occur
endpoint_ids(leg, ids) ==
  {l \in [1..Cardinality(leg.endpoints) -> {ids[e] : e \in leg.endpoints}] :
     {l[i] : i \in DOMAIN l} = {ids[e] : e \in leg.endpoints}}

\* the orders in which the endpoints of the exported legs can be written
\* (a leg has two endpoints: one order is the other one reversed)
EndpointOrders(net, ids) ==
  UNION {LET one == [leg \in legs |-> CHOOSE l \in endpoint_ids(leg, ids) : TRUE]
         IN {[leg \in legs |->
                IF leg \in reversed
                THEN CHOOSE l \in endpoint_ids(leg, ids) : l[1] = one[leg][Len(one[leg])]
                ELSE one[leg]] : reversed \in SUBSET legs} :
         legs \in union_of_legs(net.graph)}

\* the data export_to_json dumps, for a network with at least one station
\* (with none, set.union(*[]) has no argument and raises TypeError); order
\* gives, for every leg of the union, its endpoint ids as they are written
export_to_json(net, ids, order) ==
  LET charge_stations_dict ==
        [k \in {json_key(ids[cs]) : cs \in DOMAIN net.graph} |->
           LET cs == CHOOSE c \in DOMAIN net.graph : json_key(ids[c]) = k
           IN [name |-> name(cs), lat |-> coord(cs)[1], lng |-> coord(cs)[2],
               open_date |-> IF open_date(cs) # NoDate
                             THEN date_str(open_date(cs)) ELSE NoDate]]
      legs == {[endpoint_ids |-> order[leg],
                driving_distance |-> leg.driving_distance,
                driving_time |-> leg.driving_time] : leg \in DOMAIN order}
  IN [k \in {"min_chargers_at_station", "ev_range", "_graph"} |->
        CASE k = "min_chargers_at_station" -> net.min_chargers_at_station
          [] k = "ev_range" -> net.ev_range
          [] k = "_graph" -> [charge_stations |-> charge_stations_dict, legs |-> legs]]

\* ChargeNetwork.from_json on the data of a file: every station is a new
\* object (obj is its identity) with the field values of the file
from_json_ids(data) ==
  LET loaded_stations ==
        [n \in {int_of_key(k) : k \in DOMAIN data["_graph"].charge_stations} |->
           LET cs == data["_graph"].charge_stations[json_key(n)]
           IN [obj |-> n, name |-> cs.name, lat |-> cs.lat, lng |-> cs.lng,
               open_date |-> IF cs.open_date # NoDate
                             THEN strptime_date(cs.open_date) ELSE NoDate]]
      legs == {Leg(loaded_stations[leg.endpoint_ids[1]],
                   loaded_stations[leg.endpoint_ids[2]],
                   leg.driving_distance, leg.driving_time) :
                 leg \in data["_graph"].legs}
  IN [min_chargers_at_station |-> data["min_chargers_at_station"],
      ev_range |-> data["ev_range"],
      graph |-> safe_load_legs(
                  add_charge_stations(EmptyGraph,
                                      {loaded_stations[n] : n \in DOMAIN loaded_stations}),
                  {}, data["ev_range"], legs)]

\* net.export_to_json(filepath)
ExportToJson ==
  /\ json.pc = "net"
  /\ \E ids \in IdAssignments :
       IF DOMAIN json.net.graph = {}
       THEN json' = [json EXCEPT !.raised = "TypeError", !.pc = "failed"]
       ELSE \E order \in EndpointOrders(json.net, ids) :
              json' = [json EXCEPT !.ids = ids,
                                   !.file = export_to_json(json.net, ids, order),
                                   !.pc = "exported"]
  /\ UNCHANGED <<netVars, searchVars, raised, cluster, sim, pair, web, build, places>>

\* ChargeNetwork.from_json(filepath)
FromJson ==
  /\ json.pc = "exported"
  /\ json' = [json EXCEPT !.loaded = from_json_ids(json.file), !.pc = "loaded"]
  /\ UNCHANGED <<netVars, searchVars, raised, cluster, sim, pair, web, build, places>>

\* a network as make_network or from_json leaves it
JsonInit ==
  /\ \E data \in JsonFiles, min_chargers \in MinChargers :
       json = [pc |-> "net",
               net |-> [min_chargers_at_station |-> min_chargers,
                        ev_range |-> data.ev_range,
                        graph |-> from_json(data)],
               ids |-> None, file |-> None, loaded |-> None, raised |-> "none"]
  /\ Idle(cluster) /\ Idle(sim) /\ Idle(pair) /\ Idle(web) /\ Idle(build) /\ Idle(places)
  /\ NetIdle

JsonNext ==
  \/ ExportToJson
  \/ FromJson

JsonSpec == JsonInit /\ [][JsonNext]_vars

---------------------------------------------------------------------------
(* C17 *)

\* the field values of a station of the network, and of a loaded one
FieldsOf(cs) ==
  [name |-> name(cs), lat |-> coord(cs)[1], lng |-> coord(cs)[2],
   open_date |-> open_date(cs)]

LoadedFieldsOf(o) ==
  [name |-> o.name, lat |-> o.lat, lng |-> o.lng, open_date |-> o.open_date]

\* C17: exporting a network never fails and loading the file gives a
\* network with the same min_chargers_at_station and ev_range, as many
\* stations of every combination of field values, and the same legs
\* (endpoints, driving_distance, driving_time), whatever ids were used;
\* for networks of no, one and several stations.
C17_RoundTrip ==
  json.pc # "idle"
  => /\ json.raised = "none"
     /\ json.pc = "loaded"
        => /\ json.loaded.min_chargers_at_station = json.net.min_chargers_at_station
           /\ json.loaded.ev_range = json.net.ev_range
           /\ \A cs \in DOMAIN json.net.graph :
                Cardinality({c \in DOMAIN json.net.graph : FieldsOf(c) = FieldsOf(cs)})
                  = Cardinality({o \in DOMAIN json.loaded.graph :
                                   LoadedFieldsOf(o) = FieldsOf(cs)})
           /\ Cardinality(DOMAIN json.loaded.graph) = Cardinality(DOMAIN json.net.graph)
           /\ {<<{json.ids[e] : e \in leg.endpoints}, leg.driving_distance,
                 leg.driving_time>> : leg \in NetworkLegs(json.net.graph)}
                = {<<{e.obj : e \in leg.endpoints}, leg.driving_distance,
                     leg.driving_time>> : leg \in NetworkLegs(json.loaded.graph)}

---------------------------------------------------------------------------
(* Two Leg objects compared and hashed (leg.py) *)

\* the arguments of Leg(cs1, cs2, driving_distance, driving_time): two
\* stations (the representation invariant asks for two endpoints), and
\* oracle values or the defaults None, None
LegArgs ==
  {<<p[1], p[2], v[1], v[2]>> :
     p \in {q \in Stations \X Stations : q[1] # q[2]},
     v \in OracleValues \cup {<<None, None>>}}

\* coords.sort() on the coordinates of the two endpoints: tuples are
\* ordered by latitude, then longitude
sorted_coords(leg) ==
  LET cs1 == CHOOSE cs \in leg.endpoints :
               \A other \in leg.endpoints :
                  \/ coord(cs)[1] < coord(other)[1]
                  \/ (coord(cs)[1] = coord(other)[1] /\ coord(cs)[2] <= coord(other)[2])
      cs2 == CHOOSE cs \in leg.endpoints : leg.endpoints = {cs1, cs}
  IN <<coord(cs1), coord(cs2)>>

\* Leg.__hash__: the hash of (class, coords[0], coords[1]), carried as the
\* tuple it hashes
LegHash(leg) == <<"Leg", sorted_coords(leg)[1], sorted_coords(leg)[2]>>

\* leg1 == leg2
CompareLegs ==
  /\ pair.pc = "made"
  /\ pair' = [pair EXCEPT !.eq = LegEq(pair.leg1, pair.leg2), !.pc = "compared"]
  /\ UNCHANGED <<netVars, searchVars, raised, cluster, sim, json, web, build, places>>

\* hash(leg1), hash(leg2)
HashLegs ==
  /\ pair.pc = "compared"
  /\ pair' = [pair EXCEPT !.hash1 = LegHash(pair.leg1),
                          !.hash2 = LegHash(pair.leg2),
                          !.pc = "hashed"]
  /\ UNCHANGED <<netVars, searchVars, raised, cluster, sim, json, web, build, places>>

\* two legs have been constructed
PairInit ==
  /\ \E args1 \in LegArgs, args2 \in LegArgs :
       pair = [pc |-> "made", args1 |-> args1, args2 |-> args2,
               leg1 |-> Leg(args1[1], args1[2], args1[3], args1[4]),
               leg2 |-> Leg(args2[1], args2[2], args2[3], args2[4]),
               eq |-> FALSE, hash1 |-> <<>>, hash2 |-> <<>>]
  /\ Idle(cluster) /\ Idle(sim) /\ Idle(json) /\ Idle(web) /\ Idle(build) /\ Idle(places)
  /\ NetIdle

PairNext ==
  \/ CompareLegs
  \/ HashLegs

PairSpec == PairInit /\ [][PairNext]_vars

---------------------------------------------------------------------------
(* C18 *)

\* C18: two legs are equal exactly when they were made of the same two
\* station objects, in either order and whatever their driving_distance and
\* driving_time; equal legs have equal hashes; legs between different
\* station objects are not equal even when the coordinates are the same.
C18_LegEqualityByEndpoints ==
  pair.pc = "hashed"
  => /\ pair.eq <=> {pair.args1[1], pair.args1[2]} = {pair.args2[1], pair.args2[2]}
     /\ pair.eq => pair.hash1 = pair.hash2
     /\ ({pair.args1[1], pair.args1[2]} # {pair.args2[1], pair.args2[2]}
           /\ {coord(pair.args1[1]), coord(pair.args1[2])}
                = {coord(pair.args2[1]), coord(pair.args2[2])})
        => ~pair.eq

\* A-B resolved and B-A with the defaults are equal and hash alike
C18_Witness ==
  /\ pair.pc = "hashed"
  /\ pair.args1 = <<"A", "B", 100000, 3600>>
  /\ pair.args2 = <<"B", "A", None, None>>
  /\ pair.eq
  /\ pair.hash1 = <<"Leg", <<0, 0>>, <<0, 1>>>>
  /\ pair.hash2 = pair.hash1

---------------------------------------------------------------------------
(* The web layer: index() answers a POST of valid form data with the      *)
(* result of handle_get_path_request or with an error message (app.py)    *)

\* what gmaps.directions does in get_path_info: it answers, or raises one
\* of the exceptions of googlemaps.exceptions
OracleOutcomes == {"ok", "ApiError", "Timeout"}

\* the texts index() renders, without the str(err) they end with
MsgPathNotNeeded ==
  "no path was needed since start coord and end coord snapped to same charge station"
MsgPathNotFound == "no path was found between these two coordinates"
MsgApiError == "no path was found due to googlemaps api error: "
MsgUnknown == "no path was found due to unknown error: "

\* the except clauses of index(), in their order
error_message(exception) ==
  CASE exception = "PathNotNeeded" -> [text |-> MsgPathNotNeeded, err |-> ""]
    [] exception = "PathNotFound" -> [text |-> MsgPathNotFound, err |-> ""]
    [] exception = "ApiError" -> [text |-> MsgApiError, err |-> exception]
    [] OTHER -> [text |-> MsgUnknown, err |-> exception]

\* handle_get_path_request on a network without stations: min() of an
\* empty list raises ValueError before any search
SnapFails ==
  /\ pc = "idle"
  /\ Idle(web)
  /\ charge_stations(graph) = {}
  /\ raised' = "ValueError"
  /\ pc' = "done"
  /\ UNCHANGED <<query, fringe, lifo_counter, pushed, g_score, prev_legs, path>>
  /\ UNCHANGED <<netVars, auxVars>>

\* the rest of the request once get_shortest_path has returned or raised:
\* get_path_info asks the oracle, and index() renders the result page or
\* the form with the message of the exception
Respond ==
  /\ pc = "done"
  /\ Idle(web)
  /\ IF raised # "none"
     THEN web' = [pc |-> "responded", template |-> "form.html",
                  exception |-> raised, error |-> error_message(raised)]
     ELSE \E outcome \in OracleOutcomes :
            IF outcome = "ok"
            THEN web' = [pc |-> "responded", template |-> "gmap.html",
                         exception |-> "none", error |-> [text |-> "", err |-> ""]]
            ELSE web' = [pc |-> "responded", template |-> "form.html",
                         exception |-> outcome, error |-> error_message(outcome)]
  /\ UNCHANGED <<netVars, searchVars, raised, cluster, sim, json, pair, build, places>>

WebInit == QueryInit

WebNext ==
  \/ \E cs1, cs2 \in Stations, w \in Windows : GetShortestPath(cs1, cs2, w)
  \/ LoopStep
  \/ Exhausted
  \/ SnapFails
  \/ Respond

WebSpec == WebInit /\ [][WebNext]_vars

---------------------------------------------------------------------------
(* C19 *)

\* C19: a path query that fails is answered with the form and a message,
\* never with a result; PathNotNeeded, PathNotFound and a failure of the
\* routing oracle each have a message of their own; and no exception is
\* answered with the generic message.
C19_FailuresDistinct ==
  web.pc = "responded"
  => /\ web.exception # "none"
        => web.template = "form.html" /\ web.error.text # ""
     /\ web.exception = "PathNotNeeded" => web.error.text = MsgPathNotNeeded
     /\ web.exception = "PathNotFound" => web.error.text = MsgPathNotFound
     /\ web.exception \in OracleOutcomes \ {"ok"} => web.error.text = MsgApiError
     /\ web.error.text # MsgUnknown

---------------------------------------------------------------------------
(* mutate_legs (utils/create_network.py): the candidate legs of a network *)
(* are resolved by one call to the routing oracle each                     *)

\* what the user types at the prompt of mutate_legs
Answers == {"Y", "N", "y"}

\* what gmaps.directions does for a leg: it raises (Failed), or reports
\* <<metres, seconds>>; NotCalled before the call
Failed == <<"failed">>
NotCalled == <<"none">>
LegOutcomes == {Failed} \cup OracleValues

\* variant: a failed call is reported as a success
mutate_leg_always_true(leg, outcome) ==
  IF outcome = Failed
  THEN [ok |-> TRUE, leg |-> leg]
  ELSE [ok |-> TRUE,
        leg |-> [leg EXCEPT !.driving_distance = outcome[1], !.driving_time = outcome[2]]]

\* _mutate_leg: False and no mutation when the call or the reading of the
\* response raises, else both fields are set and True is returned
mutate_leg(leg, outcome) ==
  IF outcome = Failed
  THEN [ok |-> FALSE, leg |-> leg]
  ELSE [ok |-> TRUE,
        leg |-> [leg EXCEPT !.driving_distance = outcome[1], !.driving_time = outcome[2]]]

\* variant: the loop is entered whatever was typed
Confirm_unchecked ==
  /\ build.pc = "ask"
  /\ \E answer \in Answers :
       build' = [build EXCEPT !.answer = answer, !.pc = "loop"]
  /\ UNCHANGED <<netVars, searchVars, raised, cluster, sim, json, pair, web, places>>

\* the prompt: anything but Y raises KeyboardInterrupt before any call
Confirm ==
  /\ build.pc = "ask"
  /\ \E answer \in Answers :
       IF answer = "Y"
       THEN build' = [build EXCEPT !.answer = answer, !.pc = "loop"]
       ELSE build' = [build EXCEPT !.answer = answer, !.raised = "KeyboardInterrupt",
                                   !.pc = "done"]
  /\ UNCHANGED <<netVars, searchVars, raised, cluster, sim, json, pair, web, places>>

\* one turn of `for leg in legs`: the next leg of the set, in any order
MutateLeg ==
  /\ build.pc = "loop"
  /\ \E leg \in build.todo, outcome \in LegOutcomes :
       LET r == mutate_leg(leg, outcome)
       IN build' = [build EXCEPT
                      !.todo = build.todo \ {leg},
                      !.calls[leg.endpoints] = build.calls[leg.endpoints] + 1,
                      !.outcome[leg.endpoints] = outcome,
                      !.legs = (build.legs \ {leg}) \cup {r.leg},
                      !.failed_legs = IF r.ok THEN build.failed_legs
                                      ELSE SetAdd(build.failed_legs, r.leg)]
  /\ UNCHANGED <<netVars, searchVars, raised, cluster, sim, json, pair, web, places>>

\* after the loop: for leg in failed_legs: legs.remove(leg)
RemoveFailedLegs ==
  /\ build.pc = "loop"
  /\ build.todo = {}
  /\ build' = [build EXCEPT
                 !.legs = {leg \in build.legs : ~LegIn(leg, build.failed_legs)},
                 !.pc = "done"]
  /\ UNCHANGED <<netVars, searchVars, raised, cluster, sim, json, pair, web, places>>

\* make_network, step 4: legs = simplified_network.get_possible_legs(),
\* then mutate_legs(legs, gmaps)
BuildInit ==
  /\ \E css \in SUBSET Stations, ev \in EvRanges :
       LET legs == get_possible_legs(add_charge_stations(EmptyGraph, css), ev)
       IN build = [pc |-> "ask", answer |-> "", raised |-> "none",
                   init_legs |-> legs, legs |-> legs, todo |-> legs,
                   failed_legs |-> {},
                   calls |-> [p \in {leg.endpoints : leg \in legs} |-> 0],
                   outcome |-> [p \in {leg.endpoints : leg \in legs} |-> NotCalled]]
  /\ Idle(cluster) /\ Idle(sim) /\ Idle(json) /\ Idle(pair) /\ Idle(web) /\ Idle(places)
  /\ NetIdle

BuildNext ==
  \/ Confirm
  \/ MutateLeg
  \/ RemoveFailedLegs

BuildSpec == BuildInit /\ [][BuildNext]_vars

---------------------------------------------------------------------------
(* C20 *)

\* C20: after a confirmed mutate_legs every leg of the set was submitted
\* to the oracle exactly once (never more than once on the way); a leg
\* whose call failed is no longer in the set and has no driving_distance
\* and no driving_time; a leg whose call succeeded is in the set with what
\* the oracle reported, whatever happened to the others; and every leg left
\* in the set has both fields set.
C20_EachLegOnceFailedDropped ==
  build.pc \in {"loop", "done"}
  => /\ \A leg \in build.init_legs : build.calls[leg.endpoints] <= 1
     /\ (build.pc = "done" /\ build.answer = "Y")
        => /\ \A leg \in build.init_legs :
                /\ build.calls[leg.endpoints] = 1
                /\ IF build.outcome[leg.endpoints] = Failed
                   THEN /\ ~LegIn(leg, build.legs)
                        /\ \A f \in build.failed_legs :
                             LegEq(f, leg) => /\ f.driving_distance = None
                                              /\ f.driving_time = None
                   ELSE [leg EXCEPT
                           !.driving_distance = build.outcome[leg.endpoints][1],
                           !.driving_time = build.outcome[leg.endpoints][2]]
                          \in build.legs
           /\ \A leg \in build.legs :
                leg.driving_distance # None /\ leg.driving_time # None

\* of the candidates A-B, B-C and A-C the calls for A-B and A-C failed and
\* the one for B-C succeeded: only B-C is left, resolved
C20_Witness ==
  /\ build.pc = "done"
  /\ build.answer = "Y"
  /\ build.init_legs = {Leg("A", "B", None, None), Leg("B", "C", None, None),
                        Leg("A", "C", None, None)}
  /\ build.outcome[{"A", "B"}] = Failed
  /\ build.outcome[{"A", "C"}] = Failed
  /\ build.legs = {Leg("B", "C", 120000, 4320)}

---------------------------------------------------------------------------
(* C21 *)

\* C21: in mutate_legs no call to the routing oracle is made before the
\* user answered the prompt with Y; on any other answer the function
\* raises KeyboardInterrupt with no call made, the set of legs as it was
\* and no leg changed.
C21_NoCallBeforeConfirmation ==
  /\ (\E leg \in build.init_legs : build.calls[leg.endpoints] > 0)
     => build.answer = "Y"
  /\ build.pc = "ask"
     => /\ \A leg \in build.init_legs : build.calls[leg.endpoints] = 0
        /\ build.legs = build.init_legs
  /\ (build.pc # "ask" /\ build.answer # "Y")
     => /\ build.pc = "done"
        /\ build.raised = "KeyboardInterrupt"
        /\ \A leg \in build.init_legs :
             /\ build.calls[leg.endpoints] = 0
             /\ build.outcome[leg.endpoints] = NotCalled
        /\ build.legs = build.init_legs
        /\ build.failed_legs = {}
        /\ \A leg \in build.legs :
             leg.driving_distance = None /\ leg.driving_time = None

\* the prompt for three candidate legs was answered with a lower-case y
C21_Witness ==
  /\ build.pc = "done"
  /\ build.answer = "y"
  /\ build.raised = "KeyboardInterrupt"
  /\ Cardinality(build.init_legs) = 3
  /\ build.legs = build.init_legs

---------------------------------------------------------------------------
(* C22 *)

\* the least total driving distance of an in-window route from the start
\* of the query to cs
MinDistanceTo(cs) ==
  IF cs = query.cs1 THEN 0 ELSE MinDistance(graph, [query EXCEPT !.cs2 = cs])

\* C22: during get_shortest_path, when no road is shorter than the great
\* circle between its endpoints (the heuristic is admissible and
\* consistent), a g_score that is no longer infinite is the least total
\* driving distance of an in-window route from the start to that station.
C22_FirstGScoreIsFinal ==
  (/\ pc \in {"loop", "done"}
   /\ query.cs1 # query.cs2
   /\ RoadsNotShorterThanGreatCircle(graph))
  => \A cs \in DOMAIN g_score :
       g_score[cs] # Inf => g_score[cs] = MinDistanceTo(cs)

---------------------------------------------------------------------------
(* C23 *)

\* the rank of a fringe entry among the calls of fringe.put
PutIndex(e) == CHOOSE i \in 1..Len(pushed) : pushed[i] = e

\* the entries of the fringe have pairwise distinct counters, so a
\* comparison of two of them is settled before the stations are reached
CountersDistinct ==
  /\ \A e1, e2 \in fringe : e1 # e2 => e1[2] # e2[2]
  /\ raised # "TypeError"

\* the entry a turn of the while loop pops has the least f_score, and every
\* other entry of the same f_score was put into the fringe before it
PopsLatestOfEqual ==
  pc = "loop"
  => \A e \in fringe \ fringe' :
       \A o \in fringe \ {e} :
         /\ e[1] <= o[1]
         /\ o[1] = e[1] => PutIndex(o) < PutIndex(e)

\* C23: in get_shortest_path, of several fringe entries with the same
\* f_score the one inserted last is popped and expanded first; entries
\* that are in the fringe together have pairwise distinct counters, so two
\* stations are never compared to break a tie.
C23_LifoAmongEqualFScores == [](CountersDistinct) /\ [][PopsLatestOfEqual]_vars

\* two entries of equal f_score were in the fringe together: the one put
\* later has been popped, the one put earlier is still waiting
C23_Witness ==
  /\ pc = "loop"
  /\ \E i, j \in 1..Len(pushed) :
       /\ i < j
       /\ pushed[i][1] = pushed[j][1]
       /\ pushed[i] \in fringe
       /\ pushed[j] \notin fringe

---------------------------------------------------------------------------
(* C24, C25, C27 *)

\* the nodes of the tree that create_subclusters has split
SplitNodes == {p \in DOMAIN cluster.tree : cluster.tree[p].split}

\* the stations of a list, as a set
Members(stations) == {stations[i] : i \in 1..Len(stations)}

\* C24: a node split on its diameter pair (a, b) sends every station to
\* exactly one of its two groups: to the first iff it is strictly nearer
\* to a than to b, else to the second; a is in the first and b in the
\* second, so no split ever makes an empty group.
C24_SplitByNearerReference ==
  /\ cluster.raised # "IndexError"
  /\ \A p \in SplitNodes :
       LET node == cluster.tree[p]
           ab == find_furthest_charge_stations(node.stations)
           group1 == Members(cluster.tree[p \o <<1>>].stations)
           group2 == Members(cluster.tree[p \o <<2>>].stations)
       IN /\ group1 \cup group2 = Members(node.stations)
          /\ group1 \cap group2 = {}
          /\ Len(cluster.tree[p \o <<1>>].stations) + Len(cluster.tree[p \o <<2>>].stations)
               = Len(node.stations)
          /\ \A c \in Members(node.stations) :
               c \in group1 <=> float_lt(chargers_to_km(c, ab[1]), chargers_to_km(c, ab[2]))
          /\ ab[1] \in group1
          /\ ab[2] \in group2

\* the mean of the distances from stations[i] to the other stations of
\* the list, as the floats give it; 0.0 when there is no other
MeanToOthers(stations, i) ==
  IF Len(stations) = 1 THEN float(0) ELSE avg_distance(stations, i)

\* the leaves of the tree in the order of the two list functions
RECURSIVE Leaves(_, _)
Leaves(tree, p) ==
  IF tree[p].complete THEN <<p>>
  ELSE Leaves(tree, p \o <<1>>) \o Leaves(tree, p \o <<2>>)

\* C25: get_cluster_free_list returns one station per leaf, in the order
\* of get_list_of_clusters; the i-th one is a station of the i-th leaf and
\* of the i-th cluster of the list, no station of the leaf has a strictly
\* smaller mean distance to the others, and of those with an equal mean it
\* is the first of the leaf.
C25_CentroidPerLeaf ==
  cluster.pc = "freed"
  => LET leaves == Leaves(cluster.tree, <<>>)
         clusters == get_list_of_clusters(cluster.tree, <<>>)
     IN /\ Len(cluster.centroids) = Len(leaves)
        /\ Len(cluster.centroids) = Len(clusters)
        /\ cluster.clusters \in {<<>>, clusters}
        /\ \A k \in 1..Len(leaves) :
             LET stations == cluster.tree[leaves[k]].stations
                 c == cluster.centroids[k]
             IN /\ c \in Members(stations)
                /\ c \in Members(clusters[k])
                /\ \E i \in 1..Len(stations) :
                     /\ stations[i] = c
                     /\ \A j \in 1..Len(stations) :
                          /\ float_le(MeanToOthers(stations, i), MeanToOthers(stations, j))
                          /\ MeanToOthers(stations, i) = MeanToOthers(stations, j) => i <= j

\* C, B, A at 150 km: the leaves are C, and B with A; B and A are as far
\* from each other, and B, the first of the two, stands for their leaf
C25_Witness ==
  /\ cluster.pc = "freed"
  /\ cluster.distance = float(150)
  /\ ClusterInput = <<"C", "B", "A">>
  /\ cluster.centroids = <<"C", "B">>

\* C27: building the tree ends without an error for every list of
\* stations and every max diameter from 0 on, stations at the same
\* coordinates included, and each of the two children of a split holds
\* strictly fewer stations than their parent.
C27_CreationEndsWithoutError ==
  /\ cluster.raised = "none"
  /\ \A p \in SplitNodes :
       /\ Len(cluster.tree[p \o <<1>>].stations) < Len(cluster.tree[p].stations)
       /\ Len(cluster.tree[p \o <<2>>].stations) < Len(cluster.tree[p].stations)

---------------------------------------------------------------------------
(* C28 *)

\* the larger of two levels
Max2(x, y) == IF float_le(y, x) THEN x ELSE y

\* the largest distance[j] / ev_range of the path
LargestUsed ==
  CHOOSE u \in {Used(j) : j \in 1..Len(sim.info)} :
    \A j \in 1..Len(sim.info) : float_le(Used(j), u)

\* the max_leg_length handle_get_path_request gives to the path search,
\* (max_battery - min_battery) * ev_range, in km
max_leg_length(max_battery) ==
  float_mul(float_sub(max_battery, sim.min_battery), sim.ev_range)

\* the test of get_shortest_path lets the leg through: after
\* max_leg_length *= 1000, not leg.driving_distance > max_leg_length
WithinMaxLegLength(driving_distance, max_battery) ==
  float_le(float(driving_distance), float_mul(max_leg_length(max_battery), 1000))

\* start_battery is at most max_battery and the search lets every leg of
\* the path through
Planned(max_battery) ==
  /\ float_le(sim.min_battery, max_battery)
  /\ float_le(sim.start_battery, max_battery)
  /\ \A j \in 1..Len(sim.info) :
       WithinMaxLegLength(sim.info[j].driving_distance, max_battery)

\* C28 as it is claimed: in simulate_path_charging no battery_end is above
\* the larger of start_battery and min_battery plus what the longest leg
\* uses; so when start_battery is at most max_battery and no leg is longer
\* than (max_battery - min_battery) * ev_range, no battery_end is above
\* max_battery.
C28_ChargeTargetBounded ==
  sim.pc # "idle"
  => /\ \A j \in Simulated :
          float_le(sim.info[j].battery_end,
                   Max2(sim.start_battery, float_add(sim.min_battery, LargestUsed)))
     /\ \A max_battery \in MaxBatteries :
          Planned(max_battery)
          => \A j \in Simulated : float_le(sim.info[j].battery_end, max_battery)

\* x is not above y by more than y * 2^-52, in exact arithmetic, for floats
\* x >= 0 and y >= 0
NotAboveBeyondRounding(x, y) ==
  ~BigLess(BigAdd(y.mag, BigShiftRight(y.mag, Precision - 1)), x.mag)

\* C28, amended: no battery_end is above the larger of start_battery and
\* the float min_battery + (largest distance / ev_range); when
\* start_battery is at most max_battery and the path search lets every leg
\* through with max_leg_length = (max_battery - min_battery) * ev_range, no
\* battery_end is above max_battery by more than max_battery * 2^-52, the
\* rounding of the sum, and none is above 1.0: a charge target above 100%
\* comes only from distances above the planned leg lengths.
C28_ChargeTargetBoundedUpToRounding ==
  sim.pc # "idle"
  => /\ \A j \in Simulated :
          float_le(sim.info[j].battery_end,
                   Max2(sim.start_battery, float_add(sim.min_battery, LargestUsed)))
     /\ \A max_battery \in MaxBatteries :
          Planned(max_battery)
          => \A j \in Simulated :
               /\ NotAboveBeyondRounding(sim.info[j].battery_end, max_battery)
               /\ float_le(sim.info[j].battery_end, float(1))

\* one leg of 20 km, the longest the search admits for a range of 100 km
\* between a battery of 0.1 and one of 0.3: the battery is charged to
\* 0.30000000000000004, more than max_battery
C28_Witness ==
  /\ sim.pc = "done"
  /\ sim.ev_range = 100 /\ sim.charge_curve = "linear"
  /\ sim.min_battery = float_div(10, 100) /\ sim.start_battery = float_div(25, 100)
  /\ sim.info =
       <<[driving_distance |-> 20000,
         charge_time |-> [neg |-> FALSE, mag |-> <<0, 0, 0, 256, 0, 0, 0, 0, 180, 0>>],
         battery_start |-> [neg |-> FALSE, mag |-> <<0, 0, 0, 0, 0, 0, 0, 256, 0, 0>>],
         battery_end |-> [neg |-> FALSE, mag |-> <<0, 0, 256, 819, 204, 819, 204, 307, 0, 0>>]]>>
  /\ sim.returned = [neg |-> FALSE, mag |-> <<0, 0, 448, 614, 409, 614, 409, 102, 0, 0>>]
  /\ Planned(float_div(30, 100))
  /\ float_lt(float_div(30, 100), sim.info[1].battery_end)

---------------------------------------------------------------------------
(* C26 *)

\* the files of a network with a range of 300 km and roads of 120 km, or
\* of 250 km between A and C
LiveLegs(css) ==
  {leg \in ResolvedLegs(css) :
     \/ leg.driving_distance = 120000
     \/ leg.driving_distance = 250000 /\ leg.endpoints = {"A", "C"}}

LiveFiles ==
  UNION {[ev_range : {300}, charge_stations : {css},
          legs : {s \in SUBSET LiveLegs(css) : IsPySet(s)}] :
         css \in SUBSET Stations}

QueryLiveInit ==
  /\ \E data \in LiveFiles :
       /\ graph = from_json(data)
       /\ ev_range = data.ev_range
  /\ shared = {}
  /\ possible = {}
  /\ nops = 0
  /\ call = NoCall
  /\ raised = "none"
  /\ SearchIdle
  /\ AuxIdle

\* the search under the scheduling of the program: a call that has entered
\* its while loop goes on to the next turn, or to the raise after the loop
QueryLiveSpec ==
  QueryLiveInit /\ [][QueryNext]_vars /\ WF_vars(LoopStep) /\ WF_vars(Exhausted)

\* the number of entries fringe.get() has returned so far
Pops == Len(pushed) - Cardinality(fringe)

\* the start is put once, first; no station is put twice; no more entries
\* are put or popped than there are stations; and a search that is over has
\* popped the goal and returned, or has emptied the fringe and raised
PutOncePerStation ==
  (pc \in {"loop", "done"} /\ query.cs1 # query.cs2)
  => /\ pushed[1] = <<0, -1, query.cs1>>
     /\ \A i, j \in 1..Len(pushed) : pushed[i][3] = pushed[j][3] => i = j
     /\ \A e \in fringe : \E i \in 1..Len(pushed) : pushed[i] = e
     /\ Len(pushed) <= Cardinality(charge_stations(graph))
     /\ Pops <= Cardinality(charge_stations(graph))
     /\ pc = "done"
        => \/ /\ raised = "none"
              /\ \E i \in 1..Len(pushed) :
                   pushed[i][3] = query.cs2 /\ pushed[i] \notin fringe
           \/ /\ raised = "PathNotFound"
              /\ fringe = {}

\* a turn of the loop pops one entry, and puts a station exactly when it
\* gives the station its first g_score; the raise pops nothing
PutWhenFirstScored ==
  pc = "loop"
  => /\ \/ Pops' = Pops + 1
        \/ fringe = {} /\ pc' = "done" /\ Pops' = Pops
     /\ \A cs \in charge_stations(graph) :
          (\E i \in (Len(pushed) + 1)..Len(pushed') : pushed'[i][3] = cs)
          <=> (g_score[cs] = Inf /\ g_score'[cs] # Inf)

\* C26: get_shortest_path terminates: the start is put into the fringe
\* once and any other station only when its g_score is first set, so no
\* station is put twice and at most as many entries are popped as there
\* are stations; the search ends by popping the goal and returning a path,
\* or with an empty fringe and PathNotFound.
C26_SearchTerminates ==
  /\ [](PutOncePerStation)
  /\ [][PutWhenFirstScored]_vars
  /\ (pc = "loop") ~> (pc = "done")

\* every station of a network of four was put and popped, the goal last
C26_Witness ==
  /\ pc = "done"
  /\ raised = "none"
  /\ Cardinality(charge_stations(graph)) = 4
  /\ Len(pushed) = 4
  /\ Pops = 4
  /\ pushed[4][3] = query.cs2

---------------------------------------------------------------------------
(* The Places API wrappers (app.py) and the places_api table               *)
(* (data_model/places_api.py).  Time is whole seconds of unix time.        *)
(* can_make_places_api_req reads the clock three times and the table in    *)
(* three SELECTs, insert_places_api_req reads the clock and then INSERTs;  *)
(* no transaction or lock spans them, so every read of the clock and every *)
(* statement is a step of its own, and other requests and the clock may    *)
(* move between any two of them.                                           *)

TYPE_AUTO_COMPLETE == "autocomplete"
TYPE_DETAILS == "details"

\* PLACES_API_TOKEN_AGE_LIMIT.total_seconds()
PLACES_API_TOKEN_AGE_LIMIT == 120

\* timedelta(days=1).total_seconds()
SecondsPerDay == 86400

PLACES_API_DAILY_SESSION_LIMIT == 222

\* most requests received
MaxReqs == 3

\* the session tokens of the requests: the last two the limit admits in
\* a day and one more
Tokens == (PLACES_API_DAILY_SESSION_LIMIT - 1)..(PLACES_API_DAILY_SESSION_LIMIT + 1)

\* the clock starts one second more than the age limit before midnight
\* (UTC), moves by these steps, and stops once a request made at midnight
\* is older than the age limit
StartTime == SecondsPerDay - (PLACES_API_TOKEN_AGE_LIMIT + 1)
TimeSteps == {PLACES_API_TOKEN_AGE_LIMIT, PLACES_API_TOKEN_AGE_LIMIT + 1}
LastTime == SecondsPerDay + PLACES_API_TOKEN_AGE_LIMIT + 1

\* the sessions of the day before the clock starts: all but two of those
\* the limit admits, each with one autocomplete request
RecordedTime == StartTime - PLACES_API_TOKEN_AGE_LIMIT

\* the query string of a request: complete and as expected, without its
\* first parameter, or with an unexpected parameter or no session token
QueryArgs == {"valid", "missing", "unexpected"}

\* a row of the places_api table
Row(token, unix_time, type) ==
  [uuid4_token |-> token, unix_time |-> unix_time, type |-> type]

\* SELECT ... GROUP BY uuid4_token HAVING MIN(unix_time) > ?
sessions_since(table, t) ==
  {row.uuid4_token : row \in {x \in table : x.unix_time > t}}
    \ {row.uuid4_token : row \in {x \in table : x.unix_time <= t}}

\* time() - time() % timedelta(days=1).total_seconds(), of two reads of
\* the clock
day_start_arg(t1, t2) == t1 - (t2 % SecondsPerDay)

\* the first SELECT of can_make_places_api_req and its test
daily_limit_reached(table, since) ==
  Cardinality(sessions_since(table, since)) >= PLACES_API_DAILY_SESSION_LIMIT

\* the second SELECT: the rows of a details request of the token
details_requested(table, token) ==
  \E row \in table : row.uuid4_token = token /\ row.type = TYPE_DETAILS

\* the third SELECT: the rows of the token older than the age limit at t
too_old(table, token, t) ==
  \E row \in table :
     /\ row.uuid4_token = token
     /\ row.unix_time < t - PLACES_API_TOKEN_AGE_LIMIT

\* a worker that is not handling a request.  read is the last value read
\* from the clock and since the argument of the first SELECT, while they
\* are in use; steady records that, since the request's call of
\* can_make_places_api_req began, the clock has not moved and no other
\* request has inserted a row.
NoRequest ==
  [pc |-> "idle", token |-> 0, type |-> "", read |-> None, since |-> None,
   steady |-> FALSE, checked |-> FALSE, ok |-> FALSE, inserted_at |-> None,
   status |-> ""]

\* where a request is inside can_make_places_api_req
CheckPcs == {"day_start", "select_sessions", "select_details", "age_clock", "select_age"}

\* can_make_places_api_req returns False: the wrapper answers REQUEST_DENIED
Denied(req) ==
  [req EXCEPT !.pc = "responded", !.read = None, !.since = None,
              !.checked = TRUE, !.ok = FALSE, !.status = "REQUEST_DENIED"]

\* place_autocomplete_wrapper / place_details_wrapper, up to and with the
\* first time() of can_make_places_api_req
Receive(r, token, type, args) ==
  /\ places.pc = "serving"
  /\ r \in DOMAIN places.procs
  /\ places.procs[r].pc \in {"idle", "responded"}
  /\ places.nreq < MaxReqs
  /\ places' = [places EXCEPT
       !.nreq = places.nreq + 1,
       !.procs[r] =
         IF args = "missing"
         THEN [NoRequest EXCEPT !.pc = "responded", !.status = "INVALID_REQUEST"]
         ELSE IF args = "unexpected"
         THEN [NoRequest EXCEPT !.pc = "responded", !.status = "REQUEST_DENIED"]
         ELSE [NoRequest EXCEPT !.token = token, !.type = type,
                                !.read = places.now, !.steady = TRUE,
                                !.pc = "day_start"]]
  /\ UNCHANGED <<netVars, searchVars, raised, cluster, sim, json, pair, web, build>>

\* the second time() of line 50
DayStartClock(r) ==
  /\ places.pc = "serving"
  /\ r \in DOMAIN places.procs
  /\ places.procs[r].pc = "day_start"
  /\ places' = [places EXCEPT
       !.procs[r].since = day_start_arg(places.procs[r].read, places.now),
       !.procs[r].read = None,
       !.procs[r].pc = "select_sessions"]
  /\ UNCHANGED <<netVars, searchVars, raised, cluster, sim, json, pair, web, build>>

\* the first SELECT, on the table as it is now
SelectSessions(r) ==
  /\ places.pc = "serving"
  /\ r \in DOMAIN places.procs
  /\ places.procs[r].pc = "select_sessions"
  /\ LET req == places.procs[r]
     IN places' = [places EXCEPT
          !.procs[r] = IF daily_limit_reached(places.table, req.since)
                       THEN Denied(req)
                       ELSE [req EXCEPT !.since = None, !.pc = "select_details"]]
  /\ UNCHANGED <<netVars, searchVars, raised, cluster, sim, json, pair, web, build>>

\* the second SELECT
SelectDetails(r) ==
  /\ places.pc = "serving"
  /\ r \in DOMAIN places.procs
  /\ places.procs[r].pc = "select_details"
  /\ LET req == places.procs[r]
     IN places' = [places EXCEPT
          !.procs[r] = IF details_requested(places.table, req.token)
                       THEN Denied(req)
                       ELSE [req EXCEPT !.pc = "age_clock"]]
  /\ UNCHANGED <<netVars, searchVars, raised, cluster, sim, json, pair, web, build>>

\* the time() of line 68
AgeClock(r) ==
  /\ places.pc = "serving"
  /\ r \in DOMAIN places.procs
  /\ places.procs[r].pc = "age_clock"
  /\ places' = [places EXCEPT !.procs[r].read = places.now,
                              !.procs[r].pc = "select_age"]
  /\ UNCHANGED <<netVars, searchVars, raised, cluster, sim, json, pair, web, build>>

\* the third SELECT; without a row can_make_places_api_req returns True
SelectAge(r) ==
  /\ places.pc = "serving"
  /\ r \in DOMAIN places.procs
  /\ places.procs[r].pc = "select_age"
  /\ LET req == places.procs[r]
     IN places' = [places EXCEPT
          !.procs[r] = IF too_old(places.table, req.token, req.read)
                       THEN Denied(req)
                       ELSE [req EXCEPT !.read = None, !.checked = TRUE,
                                        !.ok = TRUE, !.pc = "insert_clock"]]
  /\ UNCHANGED <<netVars, searchVars, raised, cluster, sim, json, pair, web, build>>

\* insert_places_api_req: its time()
InsertClock(r) ==
  /\ places.pc = "serving"
  /\ r \in DOMAIN places.procs
  /\ places.procs[r].pc = "insert_clock"
  /\ places' = [places EXCEPT !.procs[r].read = places.now,
                              !.procs[r].pc = "insert"]
  /\ UNCHANGED <<netVars, searchVars, raised, cluster, sim, json, pair, web, build>>

\* insert_places_api_req: the INSERT.  The primary key (uuid4_token,
\* unix_time) makes it fail on a second row of the token at the same time,
\* and the wrapper answers UNKNOWN_ERROR
Insert(r) ==
  /\ places.pc = "serving"
  /\ r \in DOMAIN places.procs
  /\ places.procs[r].pc = "insert"
  /\ LET req == places.procs[r]
     IN IF \E row \in places.table :
             row.uuid4_token = req.token /\ row.unix_time = req.read
        THEN places' = [places EXCEPT
                          !.procs[r] = [req EXCEPT !.pc = "responded", !.read = None,
                                                   !.status = "UNKNOWN_ERROR"]]
        ELSE places' = [places EXCEPT
                          !.table = places.table
                                      \cup {Row(req.token, req.read, req.type)},
                          !.procs = [q \in DOMAIN places.procs |->
                                       IF q = r
                                       THEN [req EXCEPT !.pc = "forward", !.read = None,
                                                        !.inserted_at = req.read]
                                       ELSE IF places.procs[q].pc \in CheckPcs
                                       THEN [places.procs[q] EXCEPT !.steady = FALSE]
                                       ELSE places.procs[q]]]
  /\ UNCHANGED <<netVars, searchVars, raised, cluster, sim, json, pair, web, build>>

\* requests.get(url) to the Google endpoint, and its answer returned
Forward(r) ==
  /\ places.pc = "serving"
  /\ r \in DOMAIN places.procs
  /\ places.procs[r].pc = "forward"
  /\ places' = [places EXCEPT !.procs[r].pc = "responded",
                              !.procs[r].status = "FORWARDED"]
  /\ UNCHANGED <<netVars, searchVars, raised, cluster, sim, json, pair, web, build>>

\* time passes
Tick(d) ==
  /\ places.pc = "serving"
  /\ places.now + d <= LastTime
  /\ places' = [places EXCEPT
       !.now = places.now + d,
       !.procs = [q \in DOMAIN places.procs |->
                    IF places.procs[q].pc \in CheckPcs
                    THEN [places.procs[q] EXCEPT !.steady = FALSE]
                    ELSE places.procs[q]]]
  /\ UNCHANGED <<netVars, searchVars, raised, cluster, sim, json, pair, web, build>>

\* the rows of the sessions recorded earlier in the day, one autocomplete
\* request each, when handled of the MaxReqs requests were among them
RecordedEarlier(handled) ==
  {Row(token, RecordedTime, TYPE_AUTO_COMPLETE) :
     token \in 1..(PLACES_API_DAILY_SESSION_LIMIT + 1 - MaxReqs + handled)}

\* the app late in a day of many sessions, with the given workers: the
\* requests to come are one more than the limit leaves room for
PlacesStart(workers, handled) ==
  /\ places = [pc |-> "serving", table |-> RecordedEarlier(handled), now |-> StartTime,
               nreq |-> handled, procs |-> [r \in workers |-> NoRequest]]
  /\ Idle(cluster) /\ Idle(sim) /\ Idle(json) /\ Idle(pair) /\ Idle(web) /\ Idle(build)
  /\ NetIdle

PlacesStep ==
  \/ \E r \in DOMAIN places.procs, token \in Tokens,
        type \in {TYPE_AUTO_COMPLETE, TYPE_DETAILS}, args \in QueryArgs :
       Receive(r, token, type, args)
  \/ \E r \in DOMAIN places.procs : DayStartClock(r)
  \/ \E r \in DOMAIN places.procs : SelectSessions(r)
  \/ \E r \in DOMAIN places.procs : SelectDetails(r)
  \/ \E r \in DOMAIN places.procs : AgeClock(r)
  \/ \E r \in DOMAIN places.procs : SelectAge(r)
  \/ \E r \in DOMAIN places.procs : InsertClock(r)
  \/ \E r \in DOMAIN places.procs : Insert(r)
  \/ \E r \in DOMAIN places.procs : Forward(r)
  \/ \E d \in TimeSteps : Tick(d)

\* one request at a time
PlacesInit == PlacesStart({1}, 0)

PlacesNext == PlacesStep

PlacesSpec == PlacesInit /\ [][PlacesNext]_vars

\* two requests handled at the same time, after a first one
PlacesConcInit == PlacesStart({1, 2}, 1)

PlacesConcNext == PlacesStep

PlacesConcSpec == PlacesConcInit /\ [][PlacesConcNext]_vars

---------------------------------------------------------------------------
(* C29 *)

\* the start of the unix day (UTC) that holds t
DayStart(t) == SecondsPerDay * (t \div SecondsPerDay)

\* the tokens with a recorded request less than 24 hours before now
RecordedInPast24Hours(table, now) ==
  {row.uuid4_token : row \in {x \in table : x.unix_time > now - SecondsPerDay}}

\* the tokens whose first recorded request is after the start of the
\* unix day of now
FirstRecordedToday(table, now) ==
  {row.uuid4_token : row \in {x \in table : x.unix_time > DayStart(now)}}
    \ {row.uuid4_token : row \in {x \in table : x.unix_time <= DayStart(now)}}

\* the token is new, or its session is active: no details request is
\* recorded for it and none of its requests is older than the age limit
NewOrActive(table, now, token) ==
  \A row \in table :
     row.uuid4_token = token
     => /\ row.type # TYPE_DETAILS
        /\ now - row.unix_time <= PLACES_API_TOKEN_AGE_LIMIT

\* a step in which can_make_places_api_req returns to worker r, after a
\* call during which the clock has not moved and no other request has
\* inserted a row: the call saw the table and the clock as they are
Checks(r) ==
  /\ places.pc = "serving"
  /\ places.procs[r].pc \in CheckPcs
  /\ places.procs[r].steady
  /\ places'.procs[r].checked

\* C29: can_make_places_api_req(token) is True exactly when fewer than
\* PLACES_API_DAILY_SESSION_LIMIT distinct tokens were recorded in the past
\* 24 hours and the token is new or of an active session (here for a call
\* that saw one table and one value of the clock).
C29_CanMakeIffUnderLimitOfPast24Hours ==
  [][\A r \in DOMAIN places.procs :
       Checks(r)
       => (places'.procs[r].ok
           <=> /\ Cardinality(RecordedInPast24Hours(places.table, places.now))
                    < PLACES_API_DAILY_SESSION_LIMIT
               /\ NewOrActive(places.table, places.now, places'.procs[r].token))]_vars

---------------------------------------------------------------------------
(* C30 *)

\* C30: with requests handled at the same time, their checks and inserts
\* interleaved in any order, the number of distinct tokens first recorded
\* within the current day never exceeds PLACES_API_DAILY_SESSION_LIMIT, and
\* a request is forwarded to the Google endpoint only after its check has
\* passed and its record was inserted.
C30_LimitHoldsUnderConcurrency ==
  places.pc = "serving"
  => /\ Cardinality(FirstRecordedToday(places.table, places.now))
          <= PLACES_API_DAILY_SESSION_LIMIT
     /\ \A r \in DOMAIN places.procs :
          LET req == places.procs[r]
          IN (req.pc = "forward" \/ req.status = "FORWARDED")
             => /\ req.checked
                /\ req.ok
                /\ Row(req.token, req.inserted_at, req.type) \in places.table

====
